---- MODULE Spec2Model ----
(***************************************************************************)
(* Model of the shady frame pipeline (cmd/shady main), of the two live     *)
(* resource providers (shadertoy/imu, shadertoy/kinect) and of the encode  *)
(* formats.  Three independent state machines share this module; each      *)
(* specification runs one of them and leaves the others' variables alone.  *)
(***************************************************************************)
EXTENDS Integers, Sequences, FiniteSets, TLC

(* ------------------------------ bounds --------------------------------- *)
\* frames the producer may render in one modelled session
MaxProduced == 4
\* longest frame sequence handed to EncodeAnimation
MaxAnimFrames == 3
\* calls made on one AnsiDisplay instance
MaxCalls == 3
\* longest frame sequence of one of these calls
MaxAnsiFrames == 2
\* largest -framerate numerator (the rate is framerate / RateDen)
MaxRate == 2
\* largest -numframes value
MaxLimit == 2
\* largest -duration value (seconds)
MaxDuration == 1

\* -framerate is a float64; it is modelled as a rational framerate/RateDen
RateDen == 2

VARIABLES
  \* ---- cmd/shady main: flags and locals
  program,            \* which main runs: cmd/shady, or the main kept in
                      \* shadertoy/imu/imu.go
  fault,              \* what is wrong with the session's inputs, if anything
  framerate,          \* *framerate, numerator over RateDen
  numFrames,          \* *numFrames
  duration,           \* *duration
  animateNumFrames,   \* frame limit used by the metronome, 0 = none
  mainPc,             \* position of main
  ctxDone,            \* ctx cancelled (cancel() has been called)
  imgStream,          \* buffered channel producer -> metronome
  imgStreamClosed,
  counterStreamClosed,\* counterStream is unbuffered: only its closed flag
  waitgroup,          \* sync.WaitGroup counter
  sigPc,              \* signal goroutine
  encPc, encImg,      \* encoder goroutine (format.EncodeAnimation)
  drainPc,            \* drain goroutine spawned on encoder failure
  metPc, metImg, frame, \* metronome goroutine
  prodPc, prodImg,    \* sh.Animate running on main's goroutine
  formatNil,          \* format is the nil interface
  released,           \* the deferred sh.Close and outWriter.Close have run
  \* ---- history (not program state)
  produced,           \* number of frames rendered so far (frame k is k)
  received,           \* frames EncodeAnimation has taken from counterStream
  producedAtCancel,   \* value of produced when ctx was first cancelled
  cancelledBy,        \* who called cancel() first
  encErr,             \* EncodeAnimation returned an error
  reported,           \* an error message has been printed
  encoded,            \* frames handed to format.Encode
  imgCloses,          \* number of close(imgStream) calls
  counterCloses       \* number of close(counterStream) calls

pipeVars == <<program, fault, formatNil, released, reported, encoded,
              imgCloses, counterCloses,
              framerate, numFrames, duration, animateNumFrames, mainPc,
              ctxDone, imgStream, imgStreamClosed, counterStreamClosed,
              waitgroup, sigPc, encPc, encImg, drainPc, metPc, metImg, frame,
              prodPc, prodImg, produced, received, producedAtCancel,
              cancelledBy, encErr>>

\* the flags and inputs, fixed once parsed
cfg == <<program, fault, framerate, numFrames, duration>>

\* what only main's own steps and the two close calls change
closeHist == <<imgCloses, counterCloses>>
mainHist == <<formatNil, released, reported, encoded, closeHist>>

VARIABLES
  \* ---- resource providers, seen from the render thread
  mapping,            \* resources the shader's mapping declares
  uniformsBound,      \* the compiled program has the providers' uniforms
  rtPc, rtProv,       \* render thread: position and provider operated on
  provState,          \* per provider: "none", "ready" or "failed"
  closedCh,           \* per provider: the closed channel
  loopClosedCh,       \* per provider: the loopClosed channel
  closeCalled,        \* history: Close has been entered
  closeReturned,      \* history: Close has returned
  \* ---- shadertoy/imu
  imuCurrentValue,    \* imu.currentValue
  imuLock,            \* imu.currentValueLock: "free" or its holder
  imuLoopPc,          \* polling goroutine
  imuReading,         \* the goroutine's imuReading
  imuUniform,         \* uniform table entries written by PreRender
  imuLastGood,        \* history: reading of the latest successful fetch
  imuPrevGood,        \* history: reading of the successful fetch before it
  \* ---- shadertoy/kinect
  kinCtx, kinDev,     \* freenect context and device
  kinDepth, kinVideo, \* the two streams
  kinPix,             \* kin.currentImage.Pix
  kinLock,            \* kin.currentImageLock: "free" or its holder
  kinLoopPc,          \* freenectLoop goroutine
  kinCbKind, kinCbVal,\* driver callback being run and its frame
  kinTexture,         \* GPU texture kin.textureID
  kinGpuTex,          \* texture content uploaded last
  instances,          \* the instances registry (its keys)
  kinTeardown,        \* history: teardown calls made, in order
  kinExit,            \* history: why freenectLoop left its loop
  constructOutcome    \* history, per provider: what its construction met

provVars == <<mapping, uniformsBound, rtPc, rtProv, provState, closedCh,
              loopClosedCh, closeCalled, closeReturned, imuCurrentValue,
              imuLock, imuLoopPc, imuReading, imuUniform, imuLastGood,
              imuPrevGood, kinCtx, kinDev, kinDepth, kinVideo, kinPix,
              kinLock, kinLoopPc, kinCbKind, kinCbVal, kinTexture, kinGpuTex,
              instances, kinTeardown, kinExit, constructOutcome>>

VARIABLES
  \* ---- encode: one call of Format.EncodeAnimation(w, stream, interval)
  animFormat,         \* the Format
  animInput,          \* history: every frame the stream carries
  animStream,         \* frames still in the (closed) stream
  animPc,             \* position in EncodeAnimation
  animImg,            \* img of the range loop
  animSink,           \* bytes written to w so far
  animErr,            \* outcome: "none", "nil", "write", "panic", "gif"
  animInterval,       \* interval, in milliseconds
  animKind,           \* the method called: "Encode" or "EncodeAnimation"
  \* ---- GIFFormat.EncodeAnimation: the fields of gifImg
  gifImage, gifDelay, gifDisposal, gifLoopCount,
  \* ---- AnsiDisplay
  ansiInitDone,       \* initDone of the AnsiDisplay instance
  ansiCopyInitDone,   \* initDone of Encode's receiver, a copy of the instance
  ansiCallsLeft,      \* calls still to be made on the instance
  ansiLog             \* history: one entry per frame buffer built, over
                      \* all calls on the instance

gifVars == <<gifImage, gifDelay, gifDisposal, gifLoopCount>>
ansiVars == <<ansiInitDone, ansiCopyInitDone, ansiCallsLeft, ansiLog>>
\* what is fixed during one call
animCall == <<animFormat, animInput, animInterval, animKind>>

animVars == <<animFormat, animInput, animStream, animPc, animImg, animSink,
              animErr, animInterval, animKind, gifVars, ansiVars>>

vars == <<pipeVars, provVars, animVars>>

\* what each state machine leaves alone
notPipe == <<provVars, animVars>>
notProv == <<pipeVars, animVars>>
notAnim == <<pipeVars, provVars>>

NoImg == 0

(* --------------------------- cmd/shady main ---------------------------- *)

\* int(*framerate)+1 : capacity of imgStream
ImgStreamCap(rate) == (rate \div RateDen) + 1

\* uint(float64(*duration) * *framerate)
DurationFrames(d, rate) == (d * rate) \div RateDen

\* cancel(): idempotent; the history records the first caller
Cancel(who) ==
  /\ ctxDone' = TRUE
  /\ producedAtCancel' = IF ctxDone THEN producedAtCancel ELSE produced
  /\ cancelledBy' = IF ctxDone THEN cancelledBy ELSE who

\* the two mains of the sources
Programs == {"shady", "legacy"}

\* what can be wrong with a session's inputs, in the order main meets it
Faults == {"none", "geometry", "detectFormat", "unknownFormat", "openShader",
           "readShader", "detectEnv", "unknownEnv", "compile", "openOutput"}

\* the main in imu.go has no -env flag and no -duration flag
EnvFaults == {"detectEnv", "unknownEnv"}

\* failures after which main prints the error and stops
FatalFaults(prog) ==
  IF prog = "shady" THEN Faults \ {"none", "unknownEnv"}
  ELSE Faults \ ({"none", "unknownFormat"} \cup EnvFaults)

PipeInit ==
  /\ program \in Programs
  /\ fault \in Faults
  /\ framerate \in -1..MaxRate
  /\ numFrames \in 0..MaxLimit
  /\ duration \in 0..MaxDuration
  /\ program = "legacy" => (duration = 0 /\ fault \notin EnvFaults)
  /\ animateNumFrames = 0
  /\ mainPc = "flags"
  /\ ctxDone = FALSE
  /\ imgStream = <<>>
  /\ imgStreamClosed = FALSE
  /\ counterStreamClosed = FALSE
  /\ waitgroup = 0
  /\ sigPc = "idle"
  /\ encPc = "idle" /\ encImg = NoImg
  /\ drainPc = "none"
  /\ metPc = "idle" /\ metImg = NoImg /\ frame = 0
  /\ prodPc = "idle" /\ prodImg = NoImg
  /\ formatNil = FALSE
  /\ released = FALSE
  /\ produced = 0
  /\ received = <<>>
  /\ producedAtCancel = 0
  /\ cancelledBy = "none"
  /\ encErr = FALSE
  /\ reported = FALSE
  /\ encoded = <<>>
  /\ imgCloses = 0
  /\ counterCloses = 0

\* how main stops on an error: os.Exit(1) in cmd/shady, printError and
\* return in the main of imu.go
StopPc == IF program = "shady" THEN "exit1" ELSE "done"

\* flag validation and the frame limit
MainFlags ==
  /\ mainPc = "flags"
  /\ IF program = "shady" /\ duration # 0 /\ numFrames # 0
       THEN /\ mainPc' = StopPc /\ reported' = TRUE
            /\ UNCHANGED animateNumFrames
     ELSE IF (numFrames # 0 \/ duration # 0) /\ framerate = 0
       THEN /\ mainPc' = StopPc /\ reported' = TRUE
            /\ UNCHANGED animateNumFrames
     ELSE /\ animateNumFrames' =
                IF duration # 0 THEN DurationFrames(duration, framerate)
                ELSE IF numFrames # 0 THEN numFrames ELSE 0
          /\ mainPc' = "construct"
          /\ UNCHANGED reported
  /\ UNCHANGED <<notPipe, cfg, formatNil, released, encoded, closeHist,
                 encErr, ctxDone, imgStream,
                 imgStreamClosed, counterStreamClosed, waitgroup, sigPc,
                 encPc, encImg, drainPc, metPc, metImg, frame, prodPc,
                 prodImg, produced, received, producedAtCancel, cancelledBy>>

\* a faulty variant: only a zero framerate selects the single frame
AfterConstructZeroOnly == IF framerate = 0 THEN "single" ELSE "spawn"

\* if *framerate <= 0 { single frame; return }, else the animation
AfterConstruct == IF framerate <= 0 THEN "single" ELSE "spawn"

\* geometry, format, shader source, environment, renderer and output are
\* set up in this order.  A failure is printed; cmd/shady then exits with
\* status 1, except for an unknown -env value; the main of imu.go returns,
\* except for an unknown -ofmt value.  The renderer is not part of the
\* sources: given no environment it may or may not report an error.
MainConstruct ==
  /\ mainPc = "construct"
  /\ IF fault \in FatalFaults(program)
       THEN /\ reported' = TRUE
            /\ mainPc' = StopPc
            /\ released' = (program = "legacy" /\ fault = "openOutput")
            /\ UNCHANGED formatNil
     ELSE IF fault = "unknownFormat"
       THEN /\ reported' = TRUE
            /\ formatNil' = TRUE
            /\ mainPc' = AfterConstruct
            /\ UNCHANGED released
     ELSE IF fault = "unknownEnv"
       THEN /\ reported' = TRUE
            /\ \E ok \in BOOLEAN :
                 mainPc' = IF ~ok THEN "exit1" ELSE AfterConstruct
            /\ UNCHANGED <<formatNil, released>>
     ELSE /\ mainPc' = AfterConstruct
          /\ UNCHANGED <<reported, formatNil, released>>
  /\ UNCHANGED <<notPipe, cfg, encoded, closeHist,
                 encErr, animateNumFrames, ctxDone,
                 imgStream, imgStreamClosed, counterStreamClosed, waitgroup,
                 sigPc, encPc, encImg, drainPc, metPc, metImg, frame, prodPc,
                 prodImg, produced, received, producedAtCancel, cancelledBy>>

\* *framerate <= 0: img := sh.Image(); format.Encode(outWriter, img); return
\* (a nil format makes the call panic; a failing Encode is printed)
MainSingle ==
  /\ mainPc = "single"
  /\ produced' = produced + 1
  /\ IF formatNil
       THEN /\ mainPc' = "panic"
            /\ UNCHANGED <<encoded, reported, released>>
       ELSE /\ encoded' = Append(encoded, produced + 1)
            /\ \E ok \in BOOLEAN :
                 /\ mainPc' = IF ok THEN "done" ELSE StopPc
                 /\ reported' = (reported \/ ~ok)
                 /\ released' = (ok \/ program = "legacy")
  /\ UNCHANGED <<notPipe, cfg, formatNil, closeHist,
                 encErr, animateNumFrames, ctxDone,
                 imgStream, imgStreamClosed, counterStreamClosed, waitgroup,
                 sigPc, encPc, encImg, drainPc, metPc, metImg, frame, prodPc,
                 prodImg, received, producedAtCancel, cancelledBy>>

\* context, channels, waitgroup.Add(2), the three go statements, and the
\* call of sh.Animate on main's own goroutine
MainSpawn ==
  /\ mainPc = "spawn"
  /\ mainPc' = "animate"
  /\ waitgroup' = 2
  /\ sigPc' = "waiting"
  /\ encPc' = IF formatNil THEN "nilcall" ELSE "recv"
  /\ metPc' = "recv"
  /\ prodPc' = "check"
  /\ UNCHANGED <<notPipe, cfg, mainHist, encErr, animateNumFrames, ctxDone,
                 imgStream, imgStreamClosed, counterStreamClosed, encImg,
                 drainPc, metImg, frame, prodImg, produced, received,
                 producedAtCancel, cancelledBy>>

\* a faulty variant: imgStream is closed as soon as the context is
\* cancelled, whether or not sh.Animate has returned
MainCloseImgStreamOnCancel ==
  /\ mainPc = "animate" /\ ctxDone
  /\ imgStreamClosed' = TRUE
  /\ imgCloses' = imgCloses + 1
  /\ mainPc' = "wait"
  /\ UNCHANGED <<notPipe, cfg, formatNil, released, reported, encoded,
                 counterCloses, encErr, animateNumFrames, ctxDone,
                 imgStream, counterStreamClosed, waitgroup, sigPc, encPc,
                 encImg, drainPc, metPc, metImg, frame, prodPc, prodImg,
                 produced, received, producedAtCancel, cancelledBy>>

\* close(imgStream) once sh.Animate has returned
MainCloseImgStream ==
  /\ mainPc = "animate" /\ prodPc = "returned"
  /\ imgStreamClosed' = TRUE
  /\ imgCloses' = imgCloses + 1
  /\ mainPc' = "wait"
  /\ UNCHANGED <<notPipe, cfg, formatNil, released, reported, encoded,
                 counterCloses, encErr, animateNumFrames, ctxDone,
                 imgStream, counterStreamClosed, waitgroup, sigPc, encPc,
                 encImg, drainPc, metPc, metImg, frame, prodPc, prodImg,
                 produced, received, producedAtCancel, cancelledBy>>

\* a faulty variant: main returns once the encoder alone is done
MainWaitEncoderOnly ==
  /\ mainPc = "wait" /\ encPc = "end"
  /\ mainPc' = "done"
  /\ released' = TRUE
  /\ UNCHANGED <<notPipe, cfg, formatNil, reported, encoded, closeHist,
                 encErr, animateNumFrames, ctxDone,
                 imgStream, imgStreamClosed, counterStreamClosed, waitgroup,
                 sigPc, encPc, encImg, drainPc, metPc, metImg, frame, prodPc,
                 prodImg, produced, received, producedAtCancel, cancelledBy>>

\* waitgroup.Wait() returns and main returns: the deferred
\* outWriter.Close() and sh.Close() run
MainWait ==
  /\ mainPc = "wait" /\ waitgroup = 0
  /\ mainPc' = "done"
  /\ released' = TRUE
  /\ UNCHANGED <<notPipe, cfg, formatNil, reported, encoded, closeHist,
                 encErr, animateNumFrames, ctxDone,
                 imgStream, imgStreamClosed, counterStreamClosed, waitgroup,
                 sigPc, encPc, encImg, drainPc, metPc, metImg, frame, prodPc,
                 prodImg, produced, received, producedAtCancel, cancelledBy>>

\* the process is alive: goroutines run only until main returns or exits
Running == mainPc \in {"animate", "wait"}

\* signal goroutine: <-sig; signal.Stop(sig); cancel()
SignalCancel ==
  /\ Running /\ sigPc = "waiting"
  /\ sigPc' = "done"
  /\ Cancel("signal")
  /\ UNCHANGED <<notPipe, cfg, mainHist, encErr, animateNumFrames, mainPc,
                 imgStream, imgStreamClosed, counterStreamClosed, waitgroup,
                 encPc, encImg, drainPc, metPc, metImg, frame, prodPc,
                 prodImg, produced, received>>

(* ------------------- producer: sh.Animate(ctx, interval, imgStream) ----- *)
\* The renderer is not part of the sources; the producer follows the
\* documented contract: the cancellation signal is polled between frame
\* productions, each frame is pushed into the buffered hand-off, and the
\* push blocks while the hand-off is full.

\* ctx not cancelled: render the next frame
ProducerRender ==
  /\ mainPc = "animate" /\ prodPc = "check"
  /\ ~ctxDone
  /\ produced < MaxProduced
  /\ produced' = produced + 1
  /\ prodImg' = produced + 1
  /\ prodPc' = "send"
  /\ UNCHANGED <<notPipe, cfg, mainHist, encErr, animateNumFrames, mainPc,
                 ctxDone, imgStream, imgStreamClosed, counterStreamClosed,
                 waitgroup, sigPc, encPc, encImg, drainPc, metPc, metImg,
                 frame, received, producedAtCancel, cancelledBy>>

\* ctx cancelled: Animate returns
ProducerReturn ==
  /\ mainPc = "animate" /\ prodPc = "check"
  /\ ctxDone
  /\ prodPc' = "returned"
  /\ UNCHANGED <<notPipe, cfg, mainHist, encErr, animateNumFrames, mainPc,
                 ctxDone, imgStream, imgStreamClosed, counterStreamClosed,
                 waitgroup, sigPc, encPc, encImg, drainPc, metPc, metImg,
                 frame, prodImg, produced, received, producedAtCancel,
                 cancelledBy>>

\* stream <- img on a channel of capacity int(*framerate)+1
ProducerSend ==
  /\ mainPc = "animate" /\ prodPc = "send"
  /\ Len(imgStream) < ImgStreamCap(framerate)
  /\ imgStream' = Append(imgStream, prodImg)
  /\ prodImg' = NoImg
  /\ prodPc' = "check"
  /\ UNCHANGED <<notPipe, cfg, mainHist, encErr, animateNumFrames, mainPc,
                 ctxDone, imgStreamClosed, counterStreamClosed, waitgroup,
                 sigPc, encPc, encImg, drainPc, metPc, metImg, frame,
                 produced, received, producedAtCancel, cancelledBy>>

(* ------------------------- metronome goroutine -------------------------- *)
\* a faulty variant: the newest buffered frame is taken instead of the oldest
MetronomeRecvNewest ==
  /\ Running /\ metPc = "recv"
  /\ imgStream # <<>>
  /\ metImg' = imgStream[Len(imgStream)]
  /\ imgStream' = SubSeq(imgStream, 1, Len(imgStream) - 1)
  /\ frame' = frame + 1
  /\ metPc' = "send"
  /\ UNCHANGED <<notPipe, cfg, mainHist, encErr, animateNumFrames, mainPc,
                 ctxDone, imgStreamClosed, counterStreamClosed, waitgroup,
                 sigPc, encPc, encImg, drainPc, prodPc, prodImg, produced,
                 received, producedAtCancel, cancelledBy>>

\* for img := range imgStream { ... frame++
MetronomeRecv ==
  /\ Running /\ metPc = "recv"
  /\ imgStream # <<>>
  /\ metImg' = Head(imgStream)
  /\ imgStream' = Tail(imgStream)
  /\ frame' = frame + 1
  /\ metPc' = "send"
  /\ UNCHANGED <<notPipe, cfg, mainHist, encErr, animateNumFrames, mainPc,
                 ctxDone, imgStreamClosed, counterStreamClosed, waitgroup,
                 sigPc, encPc, encImg, drainPc, prodPc, prodImg, produced,
                 received, producedAtCancel, cancelledBy>>

\* the range loop ends: imgStream is closed and empty
MetronomeStreamEnd ==
  /\ Running /\ metPc = "recv"
  /\ imgStream = <<>> /\ imgStreamClosed
  /\ metPc' = "wgdone"
  /\ UNCHANGED <<notPipe, cfg, mainHist, encErr, animateNumFrames, mainPc,
                 ctxDone, imgStream, imgStreamClosed, counterStreamClosed,
                 waitgroup, sigPc, encPc, encImg, drainPc, metImg, frame,
                 prodPc, prodImg, produced, received, producedAtCancel,
                 cancelledBy>>

\* counterStream <- img, taken by EncodeAnimation's range loop
MetronomeSend ==
  /\ Running /\ metPc = "send"
  /\ encPc = "recv"
  /\ encImg' = metImg
  /\ received' = Append(received, metImg)
  /\ encPc' = "write"
  /\ metImg' = NoImg
  /\ metPc' = "limit"
  /\ UNCHANGED <<notPipe, cfg, mainHist, encErr, animateNumFrames, mainPc,
                 ctxDone, imgStream, imgStreamClosed, counterStreamClosed,
                 waitgroup, sigPc, drainPc, frame, prodPc, prodImg, produced,
                 producedAtCancel, cancelledBy>>

\* counterStream <- img, taken by the drain goroutine
MetronomeSendDrain ==
  /\ Running /\ metPc = "send"
  /\ drainPc = "recv"
  /\ metImg' = NoImg
  /\ metPc' = "limit"
  /\ UNCHANGED <<notPipe, cfg, mainHist, encErr, animateNumFrames, mainPc,
                 ctxDone, imgStream, imgStreamClosed, counterStreamClosed,
                 waitgroup, sigPc, encPc, encImg, drainPc, frame, prodPc,
                 prodImg, produced, received, producedAtCancel, cancelledBy>>

\* a faulty variant: cancel() without the break
MetronomeLimitNoBreak ==
  /\ Running /\ metPc = "limit"
  /\ IF frame = animateNumFrames
       THEN Cancel("limit") /\ metPc' = "recv"
       ELSE metPc' = "recv"
            /\ UNCHANGED <<ctxDone, producedAtCancel, cancelledBy>>
  /\ UNCHANGED <<notPipe, cfg, mainHist, encErr, animateNumFrames, mainPc,
                 imgStream, imgStreamClosed, counterStreamClosed, waitgroup,
                 sigPc, encPc, encImg, drainPc, metImg, frame, prodPc,
                 prodImg, produced, received>>

\* if frame == animateNumFrames { cancel(); break }
MetronomeLimit ==
  /\ Running /\ metPc = "limit"
  /\ IF frame = animateNumFrames
       THEN Cancel("limit") /\ metPc' = "wgdone"
       ELSE metPc' = "recv"
            /\ UNCHANGED <<ctxDone, producedAtCancel, cancelledBy>>
  /\ UNCHANGED <<notPipe, cfg, mainHist, encErr, animateNumFrames, mainPc,
                 imgStream, imgStreamClosed, counterStreamClosed, waitgroup,
                 sigPc, encPc, encImg, drainPc, metImg, frame, prodPc,
                 prodImg, produced, received>>

\* waitgroup.Done()
MetronomeDone ==
  /\ Running /\ metPc = "wgdone"
  /\ waitgroup' = waitgroup - 1
  /\ metPc' = "close"
  /\ UNCHANGED <<notPipe, cfg, mainHist, encErr, animateNumFrames, mainPc,
                 ctxDone, imgStream, imgStreamClosed, counterStreamClosed,
                 sigPc, encPc, encImg, drainPc, metImg, frame, prodPc,
                 prodImg, produced, received, producedAtCancel, cancelledBy>>

\* defer close(counterStream), run when the goroutine's function returns
MetronomeClose ==
  /\ Running /\ metPc = "close"
  /\ counterStreamClosed' = TRUE
  /\ counterCloses' = counterCloses + 1
  /\ metPc' = "end"
  /\ UNCHANGED <<notPipe, cfg, formatNil, released, reported, encoded,
                 imgCloses, encErr, animateNumFrames, mainPc,
                 ctxDone, imgStream, imgStreamClosed, waitgroup, sigPc, encPc,
                 encImg, drainPc, metImg, frame, prodPc, prodImg, produced,
                 received, producedAtCancel, cancelledBy>>

(* -------------------------- encoder goroutine --------------------------- *)
\* format.EncodeAnimation writes the frame it took; a write failure makes
\* it return the error
EncoderWrite ==
  /\ Running /\ encPc = "write"
  /\ \E ok \in BOOLEAN :
        /\ encPc' = IF ok THEN "recv" ELSE "err"
        /\ encErr' = ~ok
  /\ encImg' = NoImg
  /\ UNCHANGED <<notPipe, cfg, mainHist, animateNumFrames, mainPc,
                 ctxDone, imgStream, imgStreamClosed, counterStreamClosed,
                 waitgroup, sigPc, drainPc, metPc, metImg, frame, prodPc,
                 prodImg, produced, received, producedAtCancel, cancelledBy>>

\* counterStream closed: EncodeAnimation returns (a format that writes at
\* the end of the stream may still fail here)
EncoderStreamEnd ==
  /\ Running /\ encPc = "recv"
  /\ counterStreamClosed
  /\ \E ok \in BOOLEAN :
        /\ encPc' = IF ok THEN "wgdone" ELSE "err"
        /\ encErr' = ~ok
  /\ UNCHANGED <<notPipe, cfg, mainHist, animateNumFrames, mainPc,
                 ctxDone, imgStream, imgStreamClosed, counterStreamClosed,
                 waitgroup, sigPc, encImg, drainPc, metPc, metImg, frame,
                 prodPc, prodImg, produced, received, producedAtCancel,
                 cancelledBy>>

\* format.EncodeAnimation called on the nil interface: the goroutine
\* panics and the process dies
EncoderNilCall ==
  /\ Running /\ encPc = "nilcall"
  /\ mainPc' = "panic"
  /\ encPc' = "end"
  /\ UNCHANGED <<notPipe, cfg, mainHist, encErr, animateNumFrames,
                 ctxDone, imgStream, imgStreamClosed, counterStreamClosed,
                 waitgroup, sigPc, encImg, drainPc, metPc, metImg, frame,
                 prodPc, prodImg, produced, received, producedAtCancel,
                 cancelledBy>>

\* err != nil: print, cancel()
EncoderCancel ==
  /\ Running /\ encPc = "err"
  /\ Cancel("encoder")
  /\ reported' = TRUE
  /\ encPc' = "spawn"
  /\ UNCHANGED <<notPipe, cfg, formatNil, released, encoded, closeHist,
                 encErr, animateNumFrames, mainPc,
                 imgStream, imgStreamClosed, counterStreamClosed, waitgroup,
                 sigPc, encImg, drainPc, metPc, metImg, frame, prodPc,
                 prodImg, produced, received>>

\* go func() { for range counterStream {} }()
EncoderSpawnDrain ==
  /\ Running /\ encPc = "spawn"
  /\ drainPc' = "recv"
  /\ encPc' = "wgdone"
  /\ UNCHANGED <<notPipe, cfg, mainHist, encErr, animateNumFrames, mainPc,
                 ctxDone, imgStream, imgStreamClosed, counterStreamClosed,
                 waitgroup, sigPc, encImg, metPc, metImg, frame, prodPc,
                 prodImg, produced, received, producedAtCancel, cancelledBy>>

\* waitgroup.Done()
EncoderDone ==
  /\ Running /\ encPc = "wgdone"
  /\ waitgroup' = waitgroup - 1
  /\ encPc' = "end"
  /\ UNCHANGED <<notPipe, cfg, mainHist, encErr, animateNumFrames, mainPc,
                 ctxDone, imgStream, imgStreamClosed, counterStreamClosed,
                 sigPc, encImg, drainPc, metPc, metImg, frame, prodPc,
                 prodImg, produced, received, producedAtCancel, cancelledBy>>

\* the drain goroutine's range loop ends when counterStream is closed
DrainEnd ==
  /\ Running /\ drainPc = "recv"
  /\ counterStreamClosed
  /\ drainPc' = "end"
  /\ UNCHANGED <<notPipe, cfg, mainHist, encErr, animateNumFrames, mainPc,
                 ctxDone, imgStream, imgStreamClosed, counterStreamClosed,
                 waitgroup, sigPc, encPc, encImg, metPc, metImg, frame,
                 prodPc, prodImg, produced, received, producedAtCancel,
                 cancelledBy>>

(* ======================= resource providers ============================ *)
Providers == {"imu", "kin"}

\* the mappings of the modelled sessions: one live resource per shader
Mappings == {{"imu"}, {"kin"}}

(* ----------------------------- shadertoy/imu ---------------------------- *)
\* values a sensor field takes; a reading has two fields standing for the
\* five of imuDataType
SensorVals == {1, 2}
Reading(v) == [accel |-> v, shake |-> v]
ZeroReading == [accel |-> 0, shake |-> 0]

\* what one HTTP GET can bring: a complete reading, a transport error, or a
\* body whose second field has the wrong type
Responses == [kind : {"ok", "neterr", "typeerr"}, v : SensorVals]

\* getJson(url, target): json.Decoder.Decode stores the fields it could
\* decode even when it returns an UnmarshalTypeError
GetJson(target, resp) ==
  CASE resp.kind = "ok" -> [err |-> FALSE, val |-> Reading(resp.v)]
    [] resp.kind = "neterr" -> [err |-> TRUE, val |-> target]
    [] resp.kind = "typeerr" ->
         [err |-> TRUE, val |-> [target EXCEPT !.accel = resp.v]]

(* ---------------------------- shadertoy/kinect -------------------------- *)
ColorVals == {1, 2}
\* depth samples, indices into the gamma table
DepthVals == {0, 1024}

\* gamma[i] = 255 - uint8(pow(i/2048, 3) * 6 * 256), for i a multiple of 256
Gamma(i) == 255 - 3 * (i \div 256) * (i \div 256) * (i \div 256)

\* image.NewRGBA(resolution): two pixels stand for the 640x480
BlankPix == [c1 |-> 0, c2 |-> 0, d1 |-> 0, d2 |-> 0]

\* keys of the instances registry
StoreKey == [type |-> "uintptr", handle |-> "instanceHandle"]
DeleteKey == [type |-> "pointer", handle |-> "instanceHandle"]

ProvStart(m, u) ==
  /\ mapping = m
  /\ uniformsBound = u
  /\ rtPc = "idle" /\ rtProv = "none"
  /\ provState = [p \in Providers |-> "none"]
  /\ closedCh = [p \in Providers |-> "nil"]
  /\ loopClosedCh = [p \in Providers |-> "nil"]
  /\ closeCalled = [p \in Providers |-> FALSE]
  /\ closeReturned = [p \in Providers |-> FALSE]
  /\ imuCurrentValue = ZeroReading
  /\ imuLock = "free"
  /\ imuLoopPc = "none"
  /\ imuReading = ZeroReading
  /\ imuUniform = ZeroReading
  /\ imuLastGood = ZeroReading
  /\ imuPrevGood = ZeroReading
  /\ kinCtx = "none" /\ kinDev = "none"
  /\ kinDepth = "off" /\ kinVideo = "off"
  /\ kinPix = BlankPix
  /\ kinLock = "free"
  /\ kinLoopPc = "none"
  /\ kinCbKind = "none" /\ kinCbVal = 0
  /\ kinTexture = "none"
  /\ kinGpuTex = BlankPix
  /\ instances = {}
  /\ kinTeardown = <<>>
  /\ kinExit = "none"
  /\ constructOutcome = [p \in Providers |-> "none"]

ProvInit == \E m \in Mappings, u \in BOOLEAN : ProvStart(m, u)

\* the providers' part of a session whose shader declares no live resource
ProvIdle == ProvStart({}, FALSE)

provCfg == <<mapping, uniformsBound>>
\* what only the two constructors change
provFixed == <<provCfg, constructOutcome>>
rtVars == <<rtPc, rtProv>>
chanVars == <<closedCh, loopClosedCh, closeCalled, closeReturned>>
imuAll == <<imuCurrentValue, imuLock, imuLoopPc, imuReading, imuUniform,
            imuLastGood, imuPrevGood>>
kinAll == <<kinCtx, kinDev, kinDepth, kinVideo, kinPix, kinLock, kinLoopPc,
            kinCbKind, kinCbVal, kinTexture, kinGpuTex, instances,
            kinTeardown, kinExit>>
kinDevice == <<kinCtx, kinDev, kinDepth, kinVideo, kinTeardown, kinExit>>
kinCb == <<kinCbKind, kinCbVal>>
kinGpu == <<kinTexture, kinGpuTex, instances>>

(* ---- imu: newIMUPeripheral, its polling goroutine, PreRender ---------- *)

\* newIMUPeripheral: one synchronous getJson into imu.currentValue; on
\* error return nil, err; else make the channels and start the goroutine
ImuNew ==
  /\ rtPc = "idle" /\ "imu" \in mapping /\ provState["imu"] = "none"
  /\ \E resp \in Responses :
       LET got == GetJson(ZeroReading, resp) IN
       /\ constructOutcome' = [constructOutcome EXCEPT !["imu"] = resp.kind]
       /\ IF got.err
            THEN /\ provState' = [provState EXCEPT !["imu"] = "failed"]
                 /\ UNCHANGED <<closedCh, loopClosedCh, imuCurrentValue,
                                imuLoopPc, imuLastGood, imuPrevGood>>
            ELSE /\ provState' = [provState EXCEPT !["imu"] = "ready"]
                 /\ imuCurrentValue' = got.val
                 /\ imuLastGood' = got.val
                 /\ imuPrevGood' = got.val
                 /\ closedCh' = [closedCh EXCEPT !["imu"] = "open"]
                 /\ loopClosedCh' = [loopClosedCh EXCEPT !["imu"] = "open"]
                 /\ imuLoopPc' = "fetch"
  /\ UNCHANGED <<notProv, provCfg, rtVars, closeCalled, closeReturned,
                 imuLock, imuReading, imuUniform, kinAll>>

\* a faulty variant: the goroutine decodes straight into
\* imu.currentValue, as the constructor does
ImuLoopFetchInPlace ==
  /\ imuLoopPc = "fetch"
  /\ \E resp \in Responses :
       LET got == GetJson(imuCurrentValue, resp) IN
       /\ imuCurrentValue' = got.val
       /\ imuLoopPc' = "sleep"
       /\ imuLastGood' = IF got.err THEN imuLastGood ELSE got.val
       /\ imuPrevGood' = IF got.err THEN imuPrevGood ELSE imuLastGood
  /\ UNCHANGED <<notProv, provFixed, rtVars, provState, chanVars,
                 imuReading, imuLock, imuUniform, kinAll>>

\* err := getJson(url, imuReading)
ImuLoopFetch ==
  /\ imuLoopPc = "fetch"
  /\ \E resp \in Responses :
       LET got == GetJson(imuReading, resp) IN
       /\ imuReading' = got.val
       /\ imuLoopPc' = IF got.err THEN "sleep" ELSE "lock"
       /\ imuLastGood' = IF got.err THEN imuLastGood ELSE got.val
       /\ imuPrevGood' = IF got.err THEN imuPrevGood ELSE imuLastGood
  /\ UNCHANGED <<notProv, provFixed, rtVars, provState, chanVars,
                 imuCurrentValue, imuLock, imuUniform, kinAll>>

\* a faulty variant: the goroutine replaces the snapshot without taking the lock
ImuLoopNoLock ==
  /\ imuLoopPc = "lock"
  /\ imuLoopPc' = "store1"
  /\ UNCHANGED <<notProv, provFixed, rtVars, provState, chanVars,
                 imuCurrentValue, imuLock, imuReading, imuUniform,
                 imuLastGood, imuPrevGood, kinAll>>

\* imu.currentValueLock.Lock()
ImuLoopLock ==
  /\ imuLoopPc = "lock"
  /\ imuLock = "free"
  /\ imuLock' = "loop"
  /\ imuLoopPc' = "store1"
  /\ UNCHANGED <<notProv, provFixed, rtVars, provState, chanVars,
                 imuCurrentValue, imuReading, imuUniform, imuLastGood,
                 imuPrevGood, kinAll>>

\* imu.currentValue = *imuReading, a struct copy: first field
ImuLoopStore1 ==
  /\ imuLoopPc = "store1"
  /\ imuCurrentValue' = [imuCurrentValue EXCEPT !.accel = imuReading.accel]
  /\ imuLoopPc' = "store2"
  /\ UNCHANGED <<notProv, provFixed, rtVars, provState, chanVars, imuLock,
                 imuReading, imuUniform, imuLastGood, imuPrevGood, kinAll>>

\* ... last field
ImuLoopStore2 ==
  /\ imuLoopPc = "store2"
  /\ imuCurrentValue' = [imuCurrentValue EXCEPT !.shake = imuReading.shake]
  /\ imuLoopPc' = "unlock"
  /\ UNCHANGED <<notProv, provFixed, rtVars, provState, chanVars, imuLock,
                 imuReading, imuUniform, imuLastGood, imuPrevGood, kinAll>>

\* imu.currentValueLock.Unlock()
ImuLoopUnlock ==
  /\ imuLoopPc = "unlock"
  /\ imuLock' = "free"
  /\ imuLoopPc' = "sleep"
  /\ UNCHANGED <<notProv, provFixed, rtVars, provState, chanVars,
                 imuCurrentValue, imuReading, imuUniform, imuLastGood,
                 imuPrevGood, kinAll>>

\* time.Sleep(time.Second / 10); the for loop has no exit
ImuLoopSleep ==
  /\ imuLoopPc = "sleep"
  /\ imuLoopPc' = "fetch"
  /\ UNCHANGED <<notProv, provFixed, rtVars, provState, chanVars,
                 imuCurrentValue, imuLock, imuReading, imuUniform,
                 imuLastGood, imuPrevGood, kinAll>>

\* the renderer calls PreRender before a frame
ImuPreRenderBegin ==
  /\ rtPc = "idle" /\ provState["imu"] = "ready" /\ ~closeCalled["imu"]
  /\ rtPc' = "imuLock" /\ rtProv' = "imu"
  /\ UNCHANGED <<notProv, provFixed, provState, chanVars, imuAll, kinAll>>

\* imu.currentValueLock.Lock()
ImuPreRenderLock ==
  /\ rtPc = "imuLock"
  /\ imuLock = "free"
  /\ imuLock' = "render"
  /\ rtPc' = "imuUniform1"
  /\ UNCHANGED <<notProv, provFixed, rtProv, provState, chanVars,
                 imuCurrentValue, imuLoopPc, imuReading, imuUniform,
                 imuLastGood, imuPrevGood, kinAll>>

\* gl.Uniform3f(loc, imu.currentValue.Acceleration...) if the uniform exists
ImuPreRenderUniform1 ==
  /\ rtPc = "imuUniform1"
  /\ imuUniform' = IF uniformsBound
                     THEN [imuUniform EXCEPT !.accel = imuCurrentValue.accel]
                     ELSE imuUniform
  /\ rtPc' = "imuUniform2"
  /\ UNCHANGED <<notProv, provFixed, rtProv, provState, chanVars,
                 imuCurrentValue, imuLock, imuLoopPc, imuReading,
                 imuLastGood, imuPrevGood, kinAll>>

\* ... gl.Uniform1i(loc, shake) if the uniform exists
ImuPreRenderUniform2 ==
  /\ rtPc = "imuUniform2"
  /\ imuUniform' = IF uniformsBound
                     THEN [imuUniform EXCEPT !.shake = imuCurrentValue.shake]
                     ELSE imuUniform
  /\ rtPc' = "imuUnlock"
  /\ UNCHANGED <<notProv, provFixed, rtProv, provState, chanVars,
                 imuCurrentValue, imuLock, imuLoopPc, imuReading,
                 imuLastGood, imuPrevGood, kinAll>>

\* imu.currentValueLock.Unlock()
ImuPreRenderUnlock ==
  /\ rtPc = "imuUnlock"
  /\ imuLock' = "free"
  /\ rtPc' = "idle" /\ rtProv' = "none"
  /\ UNCHANGED <<notProv, provFixed, provState, chanVars, imuCurrentValue,
                 imuLoopPc, imuReading, imuUniform, imuLastGood, imuPrevGood,
                 kinAll>>

(* ---- Close of either provider ------------------------------------------ *)

\* Close: (imu only: if imu.closed == nil return nil) close(x.closed)
CloseBegin(p) ==
  /\ rtPc = "idle" /\ provState[p] = "ready" /\ ~closeCalled[p]
  /\ closeCalled' = [closeCalled EXCEPT ![p] = TRUE]
  /\ IF p = "imu" /\ closedCh[p] = "nil"
       THEN /\ closeReturned' = [closeReturned EXCEPT ![p] = TRUE]
            /\ UNCHANGED <<closedCh, rtVars>>
       ELSE /\ closedCh' = [closedCh EXCEPT ![p] = "closed"]
            /\ rtPc' = "closeWait" /\ rtProv' = p
            /\ UNCHANGED closeReturned
  /\ UNCHANGED <<notProv, provFixed, provState, loopClosedCh, imuAll, kinAll>>

\* a faulty variant: Close does not wait for the loop's acknowledgement
CloseNoWait(p) ==
  /\ rtPc = "closeWait" /\ rtProv = p
  /\ IF p = "kin"
       THEN rtPc' = "kinDelete" /\ UNCHANGED <<rtProv, closeReturned>>
       ELSE /\ rtPc' = "idle" /\ rtProv' = "none"
            /\ closeReturned' = [closeReturned EXCEPT ![p] = TRUE]
  /\ UNCHANGED <<notProv, provFixed, provState, closedCh, loopClosedCh,
                 closeCalled, imuAll, kinAll>>

\* <-x.loopClosed; the imu Close then returns
CloseWait(p) ==
  /\ rtPc = "closeWait" /\ rtProv = p
  /\ loopClosedCh[p] = "closed"
  /\ IF p = "kin"
       THEN rtPc' = "kinDelete" /\ UNCHANGED <<rtProv, closeReturned>>
       ELSE /\ rtPc' = "idle" /\ rtProv' = "none"
            /\ closeReturned' = [closeReturned EXCEPT ![p] = TRUE]
  /\ UNCHANGED <<notProv, provFixed, provState, closedCh, loopClosedCh,
                 closeCalled, imuAll, kinAll>>

(* ---- kinect: open, freenectLoop, the driver callbacks, PreRender ------- *)

\* a faulty variant: the instance is registered before the device is
\* opened
KinOpenStoreFirst ==
  /\ rtPc = "idle" /\ "kin" \in mapping /\ provState["kin"] = "none"
  /\ \E outcome \in {"initFail", "noDevice", "openFail", "ok"} :
       /\ constructOutcome' = [constructOutcome EXCEPT !["kin"] = outcome]
       /\ IF outcome = "ok"
            THEN /\ provState' = [provState EXCEPT !["kin"] = "ready"]
                 /\ kinCtx' = "init" /\ kinDev' = "open"
                 /\ instances' = instances \cup {StoreKey}
                 /\ kinTexture' = "allocated"
                 /\ kinGpuTex' = kinPix
                 /\ closedCh' = [closedCh EXCEPT !["kin"] = "open"]
                 /\ loopClosedCh' = [loopClosedCh EXCEPT !["kin"] = "open"]
                 /\ kinLoopPc' = "setup"
            ELSE /\ provState' = [provState EXCEPT !["kin"] = "failed"]
                 /\ kinCtx' = IF outcome = "initFail" THEN "none"
                                                       ELSE "shutdown"
                 /\ instances' = IF outcome = "openFail"
                                   THEN instances \cup {StoreKey}
                                   ELSE instances
                 /\ UNCHANGED <<kinDev, kinTexture, kinGpuTex,
                                closedCh, loopClosedCh, kinLoopPc>>
  /\ UNCHANGED <<notProv, provCfg, rtVars, closeCalled, closeReturned,
                 imuAll, kinDepth, kinVideo, kinPix, kinLock, kinCb,
                 kinTeardown, kinExit>>

\* open(): freenect_init, freenect_num_devices, freenect_open_device may
\* fail; else register the instance, create the texture, go freenectLoop
KinOpen ==
  /\ rtPc = "idle" /\ "kin" \in mapping /\ provState["kin"] = "none"
  /\ \E outcome \in {"initFail", "noDevice", "openFail", "ok"} :
       /\ constructOutcome' = [constructOutcome EXCEPT !["kin"] = outcome]
       /\ IF outcome = "ok"
            THEN /\ provState' = [provState EXCEPT !["kin"] = "ready"]
                 /\ kinCtx' = "init" /\ kinDev' = "open"
                 /\ instances' = instances \cup {StoreKey}
                 /\ kinTexture' = "allocated"
                 /\ kinGpuTex' = kinPix
                 /\ closedCh' = [closedCh EXCEPT !["kin"] = "open"]
                 /\ loopClosedCh' = [loopClosedCh EXCEPT !["kin"] = "open"]
                 /\ kinLoopPc' = "setup"
            ELSE /\ provState' = [provState EXCEPT !["kin"] = "failed"]
                 /\ kinCtx' = IF outcome = "initFail" THEN "none"
                                                       ELSE "shutdown"
                 /\ UNCHANGED <<kinDev, instances, kinTexture, kinGpuTex,
                                closedCh, loopClosedCh, kinLoopPc>>
  /\ UNCHANGED <<notProv, provCfg, rtVars, closeCalled, closeReturned,
                 imuAll, kinDepth, kinVideo, kinPix, kinLock, kinCb,
                 kinTeardown, kinExit>>

\* tilt, led, callbacks, modes, freenect_start_depth, freenect_start_video
KinLoopSetup ==
  /\ kinLoopPc = "setup"
  /\ kinDepth' = "on" /\ kinVideo' = "on"
  /\ kinLoopPc' = "check"
  /\ UNCHANGED <<notProv, provFixed, rtVars, provState, chanVars, imuAll,
                 kinCtx, kinDev, kinPix, kinLock, kinCb, kinGpu,
                 kinTeardown, kinExit>>

\* a faulty variant: on the close signal the loop returns at once
KinLoopCheckReturn ==
  /\ kinLoopPc = "check"
  /\ IF closedCh["kin"] = "closed"
       THEN kinLoopPc' = "ack" /\ kinExit' = "closed"
       ELSE kinLoopPc' = "events" /\ UNCHANGED kinExit
  /\ UNCHANGED <<notProv, provFixed, rtVars, provState, chanVars, imuAll,
                 kinCtx, kinDev, kinDepth, kinVideo, kinTeardown, kinPix,
                 kinLock, kinCb, kinGpu>>

\* select { case <-kin.closed: break outer; default: }
KinLoopCheck ==
  /\ kinLoopPc = "check"
  /\ IF closedCh["kin"] = "closed"
       THEN kinLoopPc' = "stopDepth" /\ kinExit' = "closed"
       ELSE kinLoopPc' = "events" /\ UNCHANGED kinExit
  /\ UNCHANGED <<notProv, provFixed, rtVars, provState, chanVars, imuAll,
                 kinCtx, kinDev, kinDepth, kinVideo, kinTeardown, kinPix,
                 kinLock, kinCb, kinGpu>>

\* a faulty variant: the error is logged and the loop goes on
KinEventsReturnGoOn ==
  /\ kinLoopPc = "events"
  /\ \E ok \in BOOLEAN :
       /\ kinLoopPc' = "check"
       /\ kinExit' = IF ok THEN kinExit ELSE "failed"
  /\ UNCHANGED <<notProv, provFixed, rtVars, provState, chanVars, imuAll,
                 kinCtx, kinDev, kinDepth, kinVideo, kinTeardown, kinPix,
                 kinLock, kinCb, kinGpu>>

\* freenect_process_events returns: < 0 is logged and breaks out of the
\* loop
KinEventsReturn ==
  /\ kinLoopPc = "events"
  /\ \E ok \in BOOLEAN :
       IF ok THEN kinLoopPc' = "check" /\ UNCHANGED kinExit
             ELSE kinLoopPc' = "stopDepth" /\ kinExit' = "failed"
  /\ UNCHANGED <<notProv, provFixed, rtVars, provState, chanVars, imuAll,
                 kinCtx, kinDev, kinDepth, kinVideo, kinTeardown, kinPix,
                 kinLock, kinCb, kinGpu>>

\* inside freenect_process_events the driver calls rgbCallback or
\* depthCallback with a new frame
KinEventsCallback ==
  /\ kinLoopPc = "events"
  /\ \/ \E v \in ColorVals : kinCbKind' = "rgb" /\ kinCbVal' = v
     \/ \E v \in DepthVals : kinCbKind' = "depth" /\ kinCbVal' = v
  /\ kinLoopPc' = "cbLock"
  /\ UNCHANGED <<notProv, provFixed, rtVars, provState, chanVars, imuAll,
                 kinDevice, kinPix, kinLock, kinGpu>>

\* kin.currentImageLock.Lock()
KinCallbackLock ==
  /\ kinLoopPc = "cbLock"
  /\ kinLock = "free"
  /\ kinLock' = "callback"
  /\ kinLoopPc' = "cbWrite1"
  /\ UNCHANGED <<notProv, provFixed, rtVars, provState, chanVars, imuAll,
                 kinDevice, kinPix, kinCb, kinGpu>>

\* first pixel: Pix[i*4..i*4+2] = rgb, or Pix[i*4+3] = gamma[value]
KinCallbackWrite1 ==
  /\ kinLoopPc = "cbWrite1"
  /\ kinPix' = IF kinCbKind = "rgb"
                 THEN [kinPix EXCEPT !.c1 = kinCbVal]
                 ELSE [kinPix EXCEPT !.d1 = Gamma(kinCbVal)]
  /\ kinLoopPc' = "cbWrite2"
  /\ UNCHANGED <<notProv, provFixed, rtVars, provState, chanVars, imuAll,
                 kinDevice, kinLock, kinCb, kinGpu>>

\* a faulty variant: the callback uploads the texture itself
KinCallbackWrite2Upload ==
  /\ kinLoopPc = "cbWrite2"
  /\ kinPix' = IF kinCbKind = "rgb"
                 THEN [kinPix EXCEPT !.c2 = kinCbVal]
                 ELSE [kinPix EXCEPT !.d2 = Gamma(kinCbVal)]
  /\ kinGpuTex' = kinPix'
  /\ kinLoopPc' = "cbUnlock"
  /\ UNCHANGED <<notProv, provFixed, rtVars, provState, chanVars, imuAll,
                 kinDevice, kinLock, kinCb, kinTexture, instances>>

\* last pixel
KinCallbackWrite2 ==
  /\ kinLoopPc = "cbWrite2"
  /\ kinPix' = IF kinCbKind = "rgb"
                 THEN [kinPix EXCEPT !.c2 = kinCbVal]
                 ELSE [kinPix EXCEPT !.d2 = Gamma(kinCbVal)]
  /\ kinLoopPc' = "cbUnlock"
  /\ UNCHANGED <<notProv, provFixed, rtVars, provState, chanVars, imuAll,
                 kinDevice, kinLock, kinCb, kinGpu>>

\* defer kin.currentImageLock.Unlock(); back in freenect_process_events
KinCallbackUnlock ==
  /\ kinLoopPc = "cbUnlock"
  /\ kinLock' = "free"
  /\ kinCbKind' = "none" /\ kinCbVal' = 0
  /\ kinLoopPc' = "events"
  /\ UNCHANGED <<notProv, provFixed, rtVars, provState, chanVars, imuAll,
                 kinDevice, kinPix, kinGpu>>

\* C.freenect_stop_depth(kin.dev)
KinStopDepth ==
  /\ kinLoopPc = "stopDepth"
  /\ kinDepth' = "stopped"
  /\ kinTeardown' = Append(kinTeardown, "stop_depth")
  /\ kinLoopPc' = "stopVideo"
  /\ UNCHANGED <<notProv, provFixed, rtVars, provState, chanVars, imuAll,
                 kinCtx, kinDev, kinVideo, kinPix, kinLock, kinCb, kinGpu,
                 kinExit>>

\* C.freenect_stop_video(kin.dev)
KinStopVideo ==
  /\ kinLoopPc = "stopVideo"
  /\ kinVideo' = "stopped"
  /\ kinTeardown' = Append(kinTeardown, "stop_video")
  /\ kinLoopPc' = "closeDevice"
  /\ UNCHANGED <<notProv, provFixed, rtVars, provState, chanVars, imuAll,
                 kinCtx, kinDev, kinDepth, kinPix, kinLock, kinCb, kinGpu,
                 kinExit>>

\* C.freenect_close_device(kin.dev)
KinCloseDevice ==
  /\ kinLoopPc = "closeDevice"
  /\ kinDev' = "closed"
  /\ kinTeardown' = Append(kinTeardown, "close_device")
  /\ kinLoopPc' = "shutdown"
  /\ UNCHANGED <<notProv, provFixed, rtVars, provState, chanVars, imuAll,
                 kinCtx, kinDepth, kinVideo, kinPix, kinLock, kinCb, kinGpu,
                 kinExit>>

\* C.freenect_shutdown(kin.ctx)
KinShutdown ==
  /\ kinLoopPc = "shutdown"
  /\ kinCtx' = "shutdown"
  /\ kinTeardown' = Append(kinTeardown, "shutdown")
  /\ kinLoopPc' = "ack"
  /\ UNCHANGED <<notProv, provFixed, rtVars, provState, chanVars, imuAll,
                 kinDev, kinDepth, kinVideo, kinPix, kinLock, kinCb, kinGpu,
                 kinExit>>

\* defer close(kin.loopClosed)
KinLoopAck ==
  /\ kinLoopPc = "ack"
  /\ loopClosedCh' = [loopClosedCh EXCEPT !["kin"] = "closed"]
  /\ kinLoopPc' = "end"
  /\ UNCHANGED <<notProv, provFixed, rtVars, provState, closedCh, closeCalled,
                 closeReturned, imuAll, kinDevice, kinPix, kinLock, kinCb,
                 kinGpu>>

\* the renderer calls PreRender before a frame
KinPreRenderBegin ==
  /\ rtPc = "idle" /\ provState["kin"] = "ready" /\ ~closeCalled["kin"]
  /\ rtPc' = "kinLock" /\ rtProv' = "kin"
  /\ UNCHANGED <<notProv, provFixed, provState, chanVars, imuAll, kinAll>>

\* kin.currentImageLock.Lock(); defer Unlock()
KinPreRenderLock ==
  /\ rtPc = "kinLock"
  /\ kinLock = "free"
  /\ kinLock' = "render"
  /\ rtPc' = "kinUpload"
  /\ UNCHANGED <<notProv, provFixed, rtProv, provState, chanVars, imuAll,
                 kinDevice, kinPix, kinLoopPc, kinCb, kinGpu>>

\* gl.TexSubImage2D(... gl.Ptr(kin.currentImage.Pix)); gl.Uniform1i, if
\* the sampler uniform exists
KinPreRenderUpload ==
  /\ rtPc = "kinUpload"
  /\ kinGpuTex' = IF uniformsBound THEN kinPix ELSE kinGpuTex
  /\ rtPc' = "kinUniforms"
  /\ UNCHANGED <<notProv, provFixed, rtProv, provState, chanVars, imuAll,
                 kinDevice, kinPix, kinLock, kinLoopPc, kinCb, kinTexture,
                 instances>>

\* gl.Uniform3f for iChannelResolution and <name>Size, if they exist
KinPreRenderUniforms ==
  /\ rtPc = "kinUniforms"
  /\ rtPc' = "kinUnlock"
  /\ UNCHANGED <<notProv, provFixed, rtProv, provState, chanVars, imuAll,
                 kinAll>>

\* the deferred kin.currentImageLock.Unlock()
KinPreRenderUnlock ==
  /\ rtPc = "kinUnlock"
  /\ kinLock' = "free"
  /\ rtPc' = "idle" /\ rtProv' = "none"
  /\ UNCHANGED <<notProv, provFixed, provState, chanVars, imuAll, kinDevice,
                 kinPix, kinLoopPc, kinCb, kinGpu>>

\* instances.Delete(kin.instanceHandle): the key is the pointer itself,
\* the entry was stored under uintptr(unsafe.Pointer(kin.instanceHandle))
KinCloseDelete ==
  /\ rtPc = "kinDelete"
  /\ instances' = instances \ {DeleteKey}
  /\ rtPc' = "kinDeleteTextures"
  /\ UNCHANGED <<notProv, provFixed, rtProv, provState, chanVars, imuAll,
                 kinDevice, kinPix, kinLock, kinLoopPc, kinCb, kinTexture,
                 kinGpuTex>>

\* gl.DeleteTextures(1, &kin.textureID); return nil
KinCloseDeleteTextures ==
  /\ rtPc = "kinDeleteTextures"
  /\ kinTexture' = "deleted"
  /\ closeReturned' = [closeReturned EXCEPT !["kin"] = TRUE]
  /\ rtPc' = "idle" /\ rtProv' = "none"
  /\ UNCHANGED <<notProv, provFixed, provState, closedCh, loopClosedCh,
                 closeCalled, imuAll, kinDevice, kinPix, kinLock, kinLoopPc,
                 kinCb, kinGpuTex, instances>>

RenderNext ==
  \/ ImuNew \/ KinOpen
  \/ ImuPreRenderBegin \/ ImuPreRenderLock \/ ImuPreRenderUniform1
  \/ ImuPreRenderUniform2 \/ ImuPreRenderUnlock
  \/ KinPreRenderBegin \/ KinPreRenderLock \/ KinPreRenderUpload
  \/ KinPreRenderUniforms \/ KinPreRenderUnlock
  \/ \E p \in Providers : CloseBegin(p)
  \/ \E p \in Providers : CloseWait(p)
  \/ KinCloseDelete \/ KinCloseDeleteTextures
ImuLoopNext ==
  ImuLoopFetch \/ ImuLoopLock \/ ImuLoopStore1 \/ ImuLoopStore2
    \/ ImuLoopUnlock \/ ImuLoopSleep
KinLoopNext ==
  KinLoopSetup \/ KinLoopCheck \/ KinEventsReturn \/ KinEventsCallback
    \/ KinCallbackLock \/ KinCallbackWrite1 \/ KinCallbackWrite2
    \/ KinCallbackUnlock \/ KinStopDepth \/ KinStopVideo \/ KinCloseDevice
    \/ KinShutdown \/ KinLoopAck
ProvNext == RenderNext \/ ImuLoopNext \/ KinLoopNext

(* ============================== encode ================================= *)
\* A frame: bounds (x0, y0)-(x0+w, y0+h), the Pix bytes and their stride
\* as in image.RGBA; rgba tells whether the frame is an *image.RGBA.
\* Colours are opaque, so that At(x, y).RGBA() >> 8 gives the stored bytes.
FrameA == [rgba |-> TRUE, x0 |-> 0, y0 |-> 0, w |-> 1, h |-> 1, stride |-> 4,
           pix |-> <<10, 20, 30, 255>>]
FrameB == [rgba |-> TRUE, x0 |-> 0, y0 |-> 0, w |-> 2, h |-> 1, stride |-> 8,
           pix |-> <<1, 2, 3, 255, 4, 5, 6, 255>>]
FrameC == [rgba |-> FALSE, x0 |-> 0, y0 |-> 0, w |-> 1, h |-> 2, stride |-> 4,
           pix |-> <<7, 8, 9, 255, 11, 12, 13, 255>>]
\* FrameB.SubImage(image.Rect(1, 0, 2, 1))
FrameD == [rgba |-> TRUE, x0 |-> 1, y0 |-> 0, w |-> 1, h |-> 1, stride |-> 8,
           pix |-> <<4, 5, 6, 255>>]
\* SubImage(image.Rect(0, 0, 1, 2)) of a 2x2 *image.RGBA: the rows are a
\* stride of 8 apart and Pix runs to the end of the parent's pixels
FrameE == [rgba |-> TRUE, x0 |-> 0, y0 |-> 0, w |-> 1, h |-> 2, stride |-> 8,
           pix |-> <<21, 22, 23, 255, 31, 32, 33, 255,
                     41, 42, 43, 255, 51, 52, 53, 255>>]
Frames == {FrameA, FrameB, FrameC, FrameD, FrameE}

\* the formats whose EncodeAnimation repeats Encode
FallbackFormats == {"png", "jpg", "rgb24", "rgba32"}

\* the points of img.Bounds(), row by row from the top
Points(f) ==
  [k \in 1..(f.w * f.h) |-> [x |-> f.x0 + ((k - 1) % f.w),
                             y |-> f.y0 + ((k - 1) \div f.w)]]

InBounds(f, x, y) ==
  x >= f.x0 /\ x < f.x0 + f.w /\ y >= f.y0 /\ y < f.y0 + f.h

\* img.At(x, y) as 8-bit R, G, B, A; transparent outside the bounds
At(f, x, y) ==
  IF InBounds(f, x, y)
    THEN LET o == (y - f.y0) * f.stride + (x - f.x0) * 4
         IN <<f.pix[o + 1], f.pix[o + 2], f.pix[o + 3], f.pix[o + 4]>>
    ELSE <<0, 0, 0, 0>>

\* RGB24Format.Encode: i := y*bounds.Dx() + x indexes both buf and Pix
RGB24Index(f, pt) == pt.y * f.w + pt.x

RGB24Panics(f) ==
  \E k \in 1..(f.w * f.h) :
    LET i == RGB24Index(f, Points(f)[k]) IN
      \/ i * 3 + 3 > f.w * f.h * 3
      \/ f.rgba /\ i * 4 + 3 > Len(f.pix)

RGB24Bytes(f) ==
  [j \in 1..(f.w * f.h * 3) |->
     LET i == (j - 1) \div 3
         c == (j - 1) % 3
         hit == {k \in 1..(f.w * f.h) : RGB24Index(f, Points(f)[k]) = i}
     IN IF hit = {} THEN 0
        ELSE LET pt == Points(f)[CHOOSE k \in hit : TRUE]
             IN IF f.rgba THEN f.pix[i * 4 + c + 1]
                ELSE At(f, pt.x, pt.y)[c + 1]]

\* RGBA32Format.Encode: Pix of an *image.RGBA as it is; any other image is
\* drawn into image.NewRGBA(img.Bounds()) with source point (0, 0)
RGBA32Bytes(f) ==
  IF f.rgba THEN f.pix
  ELSE [j \in 1..(f.w * f.h * 4) |->
          LET pt == Points(f)[((j - 1) \div 4) + 1]
          IN At(f, pt.x - f.x0, pt.y - f.y0)[((j - 1) % 4) + 1]]

\* the pixels of the frame in row order, what png.Encode and jpeg.Encode
\* read through img.At
PixelBytes(f, channels) ==
  [j \in 1..(f.w * f.h * channels) |->
     LET pt == Points(f)[((j - 1) \div channels) + 1]
     IN At(f, pt.x, pt.y)[((j - 1) % channels) + 1]]

\* Format.Encode(w, img): the bytes handed to w, or a panic.  png.Encode
\* and jpeg.Encode are library code: a self-contained stream with a
\* signature, the image size, the pixel data and an end marker.
Encode(fmt, f) ==
  CASE fmt = "png" ->
         [ok |-> TRUE,
          bytes |-> <<"PNG", f.w, f.h>> \o PixelBytes(f, 4) \o <<"IEND">>]
    [] fmt = "jpg" ->
         [ok |-> TRUE,
          bytes |-> <<"SOI", f.w, f.h>> \o PixelBytes(f, 3) \o <<"EOI">>]
    [] fmt = "rgb24" ->
         IF RGB24Panics(f) THEN [ok |-> FALSE, bytes |-> <<>>]
         ELSE [ok |-> TRUE, bytes |-> RGB24Bytes(f)]
    [] fmt = "rgba32" -> [ok |-> TRUE, bytes |-> RGBA32Bytes(f)]

\* sequences of at most n frames
RECURSIVE FrameSeqs(_)
FrameSeqs(n) ==
  IF n = 0 THEN {<<>>}
  ELSE LET shorter == FrameSeqs(n - 1)
       IN shorter \cup {Append(s, f) : s \in shorter, f \in Frames}

\* every Format of the package
AllFormats == FallbackFormats \cup {"gif", "ansi"}

\* pacing intervals, in milliseconds
Intervals == {0, 15, 500}

\* time.Second / 100, in milliseconds
CentiSecond == 10

\* a faulty variant: the interval is stored without conversion
GifDelayUnconverted(interval) == interval

\* int(interval / (time.Second / 100))
GifDelay(interval) == interval \div CentiSecond

\* draw.Draw(dst, img.Bounds(), img, image.Point{X: 0, Y: 0}, draw.Over) on a
\* blank dst: the pixel at p of dst comes from p - Bounds().Min of img
DrawFromOrigin(f) ==
  [k \in 1..(f.w * f.h) |->
     LET pt == Points(f)[k] IN At(f, pt.x - f.x0, pt.y - f.y0)]

\* frame := image.NewPaletted(img.Bounds(), palette.Plan9), drawn into
GifFrame(f) ==
  [x0 |-> f.x0, y0 |-> f.y0, w |-> f.w, h |-> f.h, pix |-> DrawFromOrigin(f)]

\* gif.EncodeAll(w, g): the library refuses an animation without images,
\* with as many delays or disposals as images, or with an image that does
\* not fit in the logical screen (the first image's Bounds().Max); else it
\* writes header, loop extension (more than one image), the image blocks
\* and the trailer
GifEncodeAll(images, delays, disposals, loopCount) ==
  IF \/ Len(images) = 0
     \/ Len(delays) # Len(images)
     \/ Len(disposals) # Len(images)
     \/ \E n \in 1..Len(images) :
          \/ images[n].x0 + images[n].w > images[1].x0 + images[1].w
          \/ images[n].y0 + images[n].h > images[1].y0 + images[1].h
    THEN [ok |-> FALSE, bytes |-> <<>>]
    ELSE [ok |-> TRUE,
          bytes |-> <<"GIF89a", images[1].x0 + images[1].w,
                      images[1].y0 + images[1].h>>
                    \o (IF Len(images) > 1 THEN <<"loop", loopCount>>
                        ELSE <<>>)
                    \o [n \in 1..Len(images) |->
                          [delay |-> delays[n], disposal |-> disposals[n],
                           image |-> images[n]]]
                    \o <<"trailer">>]

\* AnsiDisplay: one character cell, the upper pixel as foreground colour
\* and the lower one as background; img.At is called with x and y counted
\* from 0
AnsiCell(f, x, y) ==
  [fg |-> SubSeq(At(f, x, 2 * y), 1, 3),
   bg |-> IF 2 * y + 1 < f.h THEN SubSeq(At(f, x, 2 * y + 1), 1, 3)
          ELSE <<0>>]

\* the rows of cells of one frame, each closed by reset and newline
AnsiBody(f) ==
  [j \in 1..(((f.h \div 2) + (f.h % 2)) * (f.w + 1)) |->
     LET y == (j - 1) \div (f.w + 1)
         x == (j - 1) % (f.w + 1)
     IN IF x = f.w THEN "eol" ELSE AnsiCell(f, x, y)]

\* "\x1b[3J\x1b[H\x1b[2J" and "\x1b[1;1H"
FullClear == "clear"
CursorHome == "home"

AnimStart(fmt, input, interval) ==
  /\ animFormat = fmt
  /\ animInput = input
  /\ animStream = input
  /\ animPc = "recv"
  /\ animImg = FrameA
  /\ animSink = <<>>
  /\ animErr = "none"
  /\ animInterval = interval
  /\ animKind = "EncodeAnimation"
  /\ gifImage = <<>> /\ gifDelay = <<>> /\ gifDisposal = <<>>
  /\ gifLoopCount = 0
  /\ ansiInitDone = FALSE /\ ansiCopyInitDone = FALSE
  /\ ansiCallsLeft = 0
  /\ ansiLog = <<>>

AnimInit ==
  \E fmt \in AllFormats, input \in FrameSeqs(MaxAnimFrames),
     interval \in Intervals :
    AnimStart(fmt, input, interval)

\* the encoder's part of a session looked at for something else
AnimIdle == AnimStart("png", <<>>, 0)

\* for img := range stream
AnimRecv ==
  /\ animPc = "recv"
  /\ animStream # <<>>
  /\ animImg' = Head(animStream)
  /\ animStream' = Tail(animStream)
  /\ animPc' = "encode"
  /\ UNCHANGED <<notAnim, animCall, animSink, animErr, gifVars, ansiVars>>

\* the stream is closed and empty: return nil
AnimStreamEnd ==
  /\ animPc = "recv"
  /\ animStream = <<>>
  /\ animFormat # "gif"
  /\ animPc' = "returned"
  /\ animErr' = "nil"
  /\ UNCHANGED <<notAnim, animCall, animStream, animImg, animSink, gifVars,
                 ansiVars>>

\* a faulty variant: a loop body that keeps only the bytes of the frame it
\* has just encoded
AnimEncodeOverwrite ==
  /\ animPc = "encode"
  /\ animFormat \in FallbackFormats
  /\ LET e == Encode(animFormat, animImg) IN
       IF ~e.ok
         THEN /\ animPc' = "returned" /\ animErr' = "panic"
              /\ UNCHANGED animSink
         ELSE \/ /\ animSink' = e.bytes
                 /\ animPc' = "recv"
                 /\ UNCHANGED animErr
              \/ \E n \in {0, 1} :
                   /\ animSink' = SubSeq(e.bytes, 1, n)
                   /\ animPc' = "returned"
                   /\ animErr' = "write"
  /\ UNCHANGED <<notAnim, animCall, animStream, animImg, gifVars, ansiVars>>

\* if err := f.Encode(w, img); err != nil { return err }
\* A failing Write may have let some of the bytes through.
AnimEncode ==
  /\ animPc = "encode"
  /\ animFormat \in FallbackFormats
  /\ LET e == Encode(animFormat, animImg) IN
       IF ~e.ok
         THEN /\ animPc' = "returned" /\ animErr' = "panic"
              /\ UNCHANGED animSink
         ELSE \/ /\ animSink' = animSink \o e.bytes
                 /\ animPc' = "recv"
                 /\ UNCHANGED animErr
              \/ \E n \in {0, 1} :
                   /\ animSink' = animSink \o SubSeq(e.bytes, 1, n)
                   /\ animPc' = "returned"
                   /\ animErr' = "write"
  /\ UNCHANGED <<notAnim, animCall, animStream, animImg, gifVars, ansiVars>>

(* ---- GIFFormat.EncodeAnimation ---------------------------------------- *)
\* the loop body: one paletted frame, one delay, one disposal
AnimGifAppend ==
  /\ animPc = "encode"
  /\ animFormat = "gif"
  /\ gifImage' = Append(gifImage, GifFrame(animImg))
  /\ gifDelay' = Append(gifDelay, GifDelay(animInterval))
  /\ gifDisposal' = Append(gifDisposal, "DisposalBackground")
  /\ animPc' = "recv"
  /\ UNCHANGED <<notAnim, animCall, animStream, animImg, animSink, animErr,
                 gifLoopCount, ansiVars>>

\* return gif.EncodeAll(w, gifImg), once the stream is closed and empty
AnimGifEncodeAll ==
  /\ animPc = "recv"
  /\ animStream = <<>>
  /\ animFormat = "gif"
  /\ animPc' = "returned"
  /\ LET e == GifEncodeAll(gifImage, gifDelay, gifDisposal, gifLoopCount) IN
       IF ~e.ok
         THEN animErr' = "gif" /\ UNCHANGED animSink
         ELSE \/ animSink' = animSink \o e.bytes /\ animErr' = "nil"
              \/ \E n \in {0, 1} :
                   /\ animSink' = animSink \o SubSeq(e.bytes, 1, n)
                   /\ animErr' = "write"
  /\ UNCHANGED <<notAnim, animCall, animStream, animImg, gifVars, ansiVars>>

(* ---- AnsiDisplay ------------------------------------------------------ *)
\* initDone of the struct f points to in the running EncodeAnimation: the
\* instance, or the copy Encode's value receiver made of it
AnsiReceiverInitDone ==
  IF animKind = "Encode" THEN ansiCopyInitDone ELSE ansiInitDone

\* the frame's buffer
AnsiBuf(f) ==
  <<IF AnsiReceiverInitDone THEN CursorHome ELSE FullClear>> \o AnsiBody(f)

\* history entry of one frame: the positioning sequence put in its buffer,
\* how much of the buffer reached the sink, and the method called
AnsiLogEntry(f, written) ==
  [seq |-> AnsiBuf(f)[1], written |-> written, kind |-> animKind]

\* a faulty variant: the error of io.Copy is dropped and the loop goes on
AnimAnsiWriteIgnoreErr ==
  /\ animPc = "encode"
  /\ animFormat = "ansi"
  /\ IF animKind = "Encode"
       THEN ansiCopyInitDone' = TRUE /\ UNCHANGED ansiInitDone
       ELSE ansiInitDone' = TRUE /\ UNCHANGED ansiCopyInitDone
  /\ animPc' = "recv"
  /\ \/ /\ animSink' = animSink \o AnsiBuf(animImg)
        /\ ansiLog' = Append(ansiLog, AnsiLogEntry(animImg, "all"))
        /\ UNCHANGED animErr
     \/ \E n \in {0, 1} :
          /\ animSink' = animSink \o SubSeq(AnsiBuf(animImg), 1, n)
          /\ ansiLog' = Append(ansiLog,
                 AnsiLogEntry(animImg, IF n = 0 THEN "none" ELSE "part"))
          /\ animErr' = "write"
  /\ UNCHANGED <<notAnim, animCall, animStream, animImg, gifVars,
                 ansiCallsLeft>>

\* the loop body: fill buf (full clear for the first frame of the receiver,
\* cursor home afterwards), io.Copy(w, &buf), return its error, else sleep
AnimAnsiWrite ==
  /\ animPc = "encode"
  /\ animFormat = "ansi"
  /\ IF animKind = "Encode"
       THEN ansiCopyInitDone' = TRUE /\ UNCHANGED ansiInitDone
       ELSE ansiInitDone' = TRUE /\ UNCHANGED ansiCopyInitDone
  /\ \/ /\ animSink' = animSink \o AnsiBuf(animImg)
        /\ ansiLog' = Append(ansiLog, AnsiLogEntry(animImg, "all"))
        /\ animPc' = "recv"
        /\ UNCHANGED animErr
     \/ \E n \in {0, 1} :
          /\ animSink' = animSink \o SubSeq(AnsiBuf(animImg), 1, n)
          /\ ansiLog' = Append(ansiLog,
                 AnsiLogEntry(animImg, IF n = 0 THEN "none" ELSE "part"))
          /\ animPc' = "returned"
          /\ animErr' = "write"
  /\ UNCHANGED <<notAnim, animCall, animStream, animImg, gifVars,
                 ansiCallsLeft>>

\* a fresh AnsiDisplay on which nothing has been called yet
AnsiFresh ==
  /\ animFormat = "ansi"
  /\ animInput = <<>> /\ animStream = <<>>
  /\ animPc = "idle"
  /\ animImg = FrameA
  /\ animSink = <<>>
  /\ animErr = "none"
  /\ animInterval = 0
  /\ animKind = "EncodeAnimation"
  /\ gifImage = <<>> /\ gifDelay = <<>> /\ gifDisposal = <<>>
  /\ gifLoopCount = 0
  /\ ansiInitDone = FALSE /\ ansiCopyInitDone = FALSE
  /\ ansiCallsLeft = MaxCalls
  /\ ansiLog = <<>>

\* f.Encode(w, img): the value receiver copies the instance; the copy's
\* EncodeAnimation gets a closed stream holding img, and interval 0
AnsiCallEncode ==
  /\ animFormat = "ansi"
  /\ animPc \in {"idle", "returned"}
  /\ ansiCallsLeft > 0
  /\ ansiCallsLeft' = ansiCallsLeft - 1
  /\ \E img \in Frames :
       /\ animInput' = <<img>>
       /\ animStream' = <<img>>
  /\ animKind' = "Encode"
  /\ animInterval' = 0
  /\ ansiCopyInitDone' = ansiInitDone
  /\ animPc' = "recv"
  /\ animSink' = <<>>
  /\ animErr' = "none"
  /\ UNCHANGED <<notAnim, animFormat, animImg, gifVars, ansiInitDone,
                 ansiLog>>

\* f.EncodeAnimation(w, stream, interval) on the instance itself
AnsiCallEncodeAnimation ==
  /\ animFormat = "ansi"
  /\ animPc \in {"idle", "returned"}
  /\ ansiCallsLeft > 0
  /\ ansiCallsLeft' = ansiCallsLeft - 1
  /\ \E input \in FrameSeqs(MaxAnsiFrames) :
       /\ animInput' = input
       /\ animStream' = input
  /\ animKind' = "EncodeAnimation"
  /\ \E interval \in Intervals : animInterval' = interval
  /\ animPc' = "recv"
  /\ animSink' = <<>>
  /\ animErr' = "none"
  /\ UNCHANGED <<notAnim, animFormat, animImg, gifVars, ansiInitDone,
                 ansiCopyInitDone, ansiLog>>

AnimNext ==
  \/ AnimRecv \/ AnimStreamEnd \/ AnimEncode
  \/ AnimGifAppend \/ AnimGifEncodeAll
  \/ AnimAnsiWrite
AnsiNext ==
  \/ AnsiCallEncode \/ AnsiCallEncodeAnimation
  \/ AnimRecv \/ AnimStreamEnd \/ AnimAnsiWrite

(* ---------------------------- specification ----------------------------- *)
MainNext == MainFlags \/ MainConstruct \/ MainSingle \/ MainSpawn
              \/ MainCloseImgStream \/ MainWait
ProducerNext == ProducerRender \/ ProducerReturn \/ ProducerSend
MetronomeNext == MetronomeRecv \/ MetronomeStreamEnd \/ MetronomeSend
                   \/ MetronomeSendDrain \/ MetronomeLimit \/ MetronomeDone
                   \/ MetronomeClose
EncoderNext == EncoderWrite \/ EncoderStreamEnd \/ EncoderCancel
                 \/ EncoderSpawnDrain \/ EncoderDone \/ EncoderNilCall
PipeNext == MainNext \/ ProducerNext \/ MetronomeNext \/ EncoderNext
              \/ DrainEnd \/ SignalCancel

Init == PipeInit /\ ProvIdle /\ AnimIdle
Next == PipeNext
Spec == Init /\ [][Next]_vars

\* Go schedules every runnable goroutine; the interrupt signal is an
\* input of the environment and gets no fairness
FairSpec == Spec /\ WF_vars(MainNext) /\ WF_vars(ProducerNext)
              /\ WF_vars(MetronomeNext) /\ WF_vars(EncoderNext)
              /\ WF_vars(DrainEnd)

\* pipeline variables of a session that is only looked at for its providers
PipeIdle ==
  /\ PipeInit
  /\ program = "shady" /\ fault = "none"
  /\ framerate = 0 /\ numFrames = 0 /\ duration = 0

ProvSpecInit == ProvInit /\ PipeIdle /\ AnimIdle
ProvSpec == ProvSpecInit /\ [][ProvNext]_vars

\* every goroutine keeps being scheduled; freenect_process_events handles
\* the pending events and returns
ProvFairSpec == ProvSpec /\ WF_vars(RenderNext) /\ WF_vars(ImuLoopNext)
                  /\ WF_vars(KinLoopNext) /\ SF_vars(KinEventsReturn)

\* one call of EncodeAnimation on a closed stream
EncSpecInit == AnimInit /\ PipeIdle /\ ProvIdle
EncSpec == EncSpecInit /\ [][AnimNext]_vars

\* EncodeAnimation runs on a goroutine of its own, which is scheduled
EncFairSpec == EncSpec /\ WF_vars(AnimNext)

\* calls made one after the other on one AnsiDisplay
AnsiSpecInit == AnsiFresh /\ PipeIdle /\ ProvIdle
AnsiSpec == AnsiSpecInit /\ [][AnsiNext]_vars


(* ======================= properties of the pipeline ===================== *)
SessionReturned == mainPc = "done"
StagesTerminated ==
  prodPc = "returned" /\ metPc \in {"close", "end"} /\ encPc = "end"

\* frames 1..n in generation order
FirstFrames(n) == [i \in 1..n |-> i]

\* C1: once cancellation is triggered (signal, frame limit or encoder
\* failure), the producer, the metronome and the encoder stage eventually
\* terminate and main returns from waitgroup.Wait().  (A session running
\* without a format crashes before it encodes anything and is left out.)
C1_CancelTerminates ==
  (ctxDone /\ ~formatNil) ~> (SessionReturned /\ StagesTerminated)

\* The same without a frame limit: the metronome then never leaves its loop
\* before imgStream is closed.
CancelTerminatesNoLimit ==
  (ctxDone /\ ~formatNil /\ animateNumFrames = 0)
    ~> (SessionReturned /\ StagesTerminated)

\* The state C1 excludes: the metronome has left its loop on the frame
\* limit while the producer waits to send into the full imgStream.
ProducerStuck ==
  /\ prodPc = "send" /\ Len(imgStream) = ImgStreamCap(framerate)
  /\ metPc \in {"wgdone", "close", "end"}

\* C2: when a session cancelled by signal or by the frame limit has
\* terminated, the frames the encoder received are exactly the frames the
\* producer generated before cancellation.
C2_ReceivedAllProducedBeforeCancel ==
  (SessionReturned /\ cancelledBy \in {"signal", "limit"} /\ ~encErr)
    => received = FirstFrames(producedAtCancel)

\* What the code does deliver at termination: the first frames in order, all
\* of them unless the frame limit cut the stream.
ReceivedAtTermination ==
  (SessionReturned /\ cancelledBy \in {"signal", "limit"} /\ ~encErr)
    => received = FirstFrames(IF animateNumFrames # 0
                                   /\ produced >= animateNumFrames
                                THEN animateNumFrames ELSE produced)

\* C3: in every state the frames handed to EncodeAnimation are a prefix of
\* the frames generated: generation order, no duplicate, no gap.
C3_ReceivedIsPrefix ==
  /\ Len(received) <= produced
  /\ received = FirstFrames(Len(received))

\* several frames delivered while a later one is still upstream
C3_Witness == Len(received) >= 2 /\ Len(imgStream) >= 1

\* C4: after EncodeAnimation returned a failure the session still ends:
\* neither the metronome nor the producer stays blocked and Wait returns.
C4_EncoderFailureTerminates == encErr ~> SessionReturned

\* The same without a frame limit.
EncoderFailureTerminatesNoLimit ==
  (encErr /\ animateNumFrames = 0) ~> SessionReturned

(* ==================== properties of the resource providers ============== *)
TeardownOrder == <<"stop_depth", "stop_video", "close_device", "shutdown">>

ImuLoopRunning ==
  imuLoopPc \in {"fetch", "lock", "store1", "store2", "unlock", "sleep"}
KinLoopExited == kinLoopPc = "end" /\ loopClosedCh["kin"] = "closed"

\* the render thread is inside PreRender's critical section
ImuReaderInside == rtPc \in {"imuUniform1", "imuUniform2", "imuUnlock"}
KinReaderInside == rtPc \in {"kinUpload", "kinUniforms", "kinUnlock"}
\* a writer is inside its critical section
ImuWriterInside == imuLoopPc \in {"store1", "store2", "unlock"}
KinWriterInside == kinLoopPc \in {"cbWrite1", "cbWrite2", "cbUnlock"}

\* C5: in any state where Close has returned, the provider's loop has
\* exited and has made its teardown calls; it no longer fetches, writes the
\* snapshot or touches the device.
C5_CloseIsBarrier ==
  /\ closeReturned["kin"] =>
       /\ KinLoopExited
       /\ kinTeardown = TeardownOrder
       /\ kinLock # "callback"
  /\ closeReturned["imu"] => ~ImuLoopRunning

\* the camera's Close has returned after its loop had run and written frames
C5_Witness ==
  closeReturned["kin"] /\ kinPix # BlankPix /\ kinTexture = "deleted"

\* C6: Close, called once on a constructed provider whose loop is running,
\* eventually returns.
C6_CloseReturns ==
  /\ closeCalled["imu"] ~> closeReturned["imu"]
  /\ closeCalled["kin"] ~> closeReturned["kin"]

\* The camera's half of C6.
KinCloseReturns == closeCalled["kin"] ~> closeReturned["kin"]

\* The state C6 excludes: Close waits on loopClosed, which the polling
\* goroutine never closes.
ImuCloseStuck ==
  rtPc = "closeWait" /\ rtProv = "imu" /\ ImuLoopRunning
    /\ loopClosedCh["imu"] = "open"

\* C7: PreRender's read of the snapshot and a writer's update exclude each
\* other, so PreRender never sees a snapshot between the first and the last
\* write of an update.  (Each provider has one writer task: the polling
\* goroutine, and the event loop that runs both callbacks one at a time.)
C7_SnapshotMutex ==
  /\ ~(ImuReaderInside /\ ImuWriterInside)
  /\ ~(KinReaderInside /\ KinWriterInside)
  /\ ImuReaderInside => imuCurrentValue.accel = imuCurrentValue.shake
  /\ KinReaderInside => kinPix.c1 = kinPix.c2 /\ kinPix.d1 = kinPix.d2
  /\ imuUniform.accel # imuUniform.shake => rtPc = "imuUniform2"

\* PreRender reads while the goroutine waits with a new reading
C7_Witness ==
  rtPc = "imuUniform2" /\ imuLoopPc = "lock" /\ imuReading # imuCurrentValue

\* GPU calls PreRender makes: only for uniforms the program has
RenderInGpuCall ==
  uniformsBound /\ rtPc \in {"imuUniform1", "imuUniform2", "kinUpload",
                             "kinUniforms"}

\* C8: the snapshot lock is never held while an I/O call or a GPU call is
\* made: critical sections contain only the copy or replacement.
C8_NoCallUnderLock ==
  /\ imuLock = "loop" => ImuWriterInside
  /\ kinLock = "callback" => KinWriterInside
  /\ (imuLock = "render" \/ kinLock = "render") => ~RenderInGpuCall

\* What holds instead: the writers hold the lock only around the
\* replacement, never across a fetch, a sleep or a device call; the render
\* thread holds it for the whole of PreRender, GPU calls included.
NoDeviceOrNetworkCallUnderLock ==
  /\ imuLock = "loop" <=> ImuWriterInside
  /\ kinLock = "callback" <=> KinWriterInside
  /\ imuLock = "render" <=> ImuReaderInside
  /\ kinLock = "render" <=> KinReaderInside

\* C9: at every PreRender the imu snapshot equals the reading of the most
\* recent successful fetch (the construction-time fetch if none since):
\* stated at the step where PreRender takes the lock to read.
C9_SnapshotIsLatestFetch ==
  [][ImuPreRenderLock => imuCurrentValue = imuLastGood]_vars

\* C9 as amended: ... of the most recent successful fetch whose result the
\* goroutine has stored; a reading still waiting for the lock is not yet
\* visible.  A failed poll leaves the snapshot unchanged, and the goroutine
\* holds the lock only around the replacement, so a fetch never blocks
\* PreRender.
C9_SnapshotIsLatestStored ==
  /\ ImuReaderInside =>
       imuCurrentValue = IF imuLoopPc = "lock" THEN imuPrevGood
                         ELSE imuLastGood
  /\ imuLock = "loop" => ImuWriterInside

\* PreRender runs after a poll that failed half-way through decoding
C9_Witness ==
  /\ rtPc = "imuUniform1" /\ imuLoopPc = "sleep"
  /\ imuReading # imuLastGood /\ imuCurrentValue = imuLastGood
  /\ imuLastGood # imuPrevGood

(* ------------------------- encoder properties --------------------------- *)
\* the outputs of Encode on each frame of s alone, one after the other
RECURSIVE ConcatEncode(_, _)
ConcatEncode(fmt, s) ==
  IF s = <<>> THEN <<>>
  ELSE Encode(fmt, Head(s)).bytes \o ConcatEncode(fmt, Tail(s))

AnimReturnedNil == animPc = "returned" /\ animErr = "nil"

\* C10: for PNG, JPEG, RGB24 and RGBA32, when EncodeAnimation has returned
\* nil (no Write failed), the sink holds exactly the concatenation of the
\* Encode outputs of the input frames, in input order; nothing when the
\* input is empty.
C10_AnimationIsConcat ==
  (AnimReturnedNil /\ animFormat \in FallbackFormats)
    => /\ animSink = ConcatEncode(animFormat, animInput)
       /\ (animInput = <<>> => animSink = <<>>)

\* two different frames went through and both left bytes in the sink
C10_Witness ==
  /\ AnimReturnedNil
  /\ Len(animInput) >= 2
  /\ animInput[1] # animInput[2]
  /\ Len(animSink) > Len(Encode(animFormat, animInput[1]).bytes)

\* the empty animation
C10_EmptyWitness == AnimReturnedNil /\ animInput = <<>> /\ animSink = <<>>

\* frames EncodeAnimation has taken from its stream
AnimTaken == Len(animInput) - Len(animStream)

\* C11: for every format EncodeAnimation terminates, when the input has
\* ended or at the first write failure; after a write failure it has
\* returned that failure and takes no further frame from the stream.
C11_StopsAtEndOrWriteFailure ==
  /\ <>(animPc = "returned")
  /\ [](animErr = "write" => animPc = "returned")
  /\ []((animPc = "returned" /\ animErr = "nil") => animStream = <<>>)
  /\ [][animErr = "write" => animStream' = animStream]_vars

\* a write failed at the second frame, with a frame still in the stream
C11_Witness ==
  /\ animPc = "returned" /\ animErr = "write"
  /\ AnimTaken = 2 /\ animStream # <<>>

(* ---- AnsiDisplay over its lifetime ------------------------------------- *)
\* every frame buffer built so far reached its sink whole
AnsiAllWritten == \A n \in 1..Len(ansiLog) : ansiLog[n].written = "all"

\* only EncodeAnimation has encoded frames on the instance
AnsiOnlyAnimation ==
  \A n \in 1..Len(ansiLog) : ansiLog[n].kind = "EncodeAnimation"

\* the first frame carries the full clear, every later one the cursor home
AnsiClearedOnce ==
  \A n \in 1..Len(ansiLog) :
    ansiLog[n].seq = IF n = 1 THEN FullClear ELSE CursorHome

\* C12: over any sequence of Encode and EncodeAnimation calls on one
\* AnsiDisplay (no write failing), the full clear is emitted exactly once,
\* with the first frame ever encoded; every later frame, in the same or in
\* a later call, emits only the cursor-home sequence.
C12_FullClearExactlyOnce == AnsiAllWritten => AnsiClearedOnce

\* What holds instead: the instance remembers its first frame only across
\* EncodeAnimation calls; Encode works on a copy of the instance.
ClearedOnceAcrossAnimations ==
  (AnsiAllWritten /\ AnsiOnlyAnimation) => AnsiClearedOnce

\* two calls of Encode have each emitted a full clear
AnsiClearedTwice ==
  /\ AnsiAllWritten
  /\ Len(ansiLog) >= 2
  /\ ansiLog[1].seq = FullClear /\ ansiLog[2].seq = FullClear

(* ---- single frame, shutdown and results -------------------------------- *)
SessionEnded == mainPc \in {"done", "exit1", "panic"}

\* none of the goroutines, channels or the waitgroup of the animation is
\* in use
NoStageStarted ==
  /\ sigPc = "idle" /\ encPc = "idle" /\ drainPc = "none"
  /\ metPc = "idle" /\ prodPc = "idle"
  /\ waitgroup = 0 /\ ~ctxDone
  /\ imgStream = <<>> /\ received = <<>>
  /\ imgCloses = 0 /\ counterCloses = 0

\* C13: with framerate <= 0 the session renders exactly one frame, calls
\* Encode exactly once, with that frame, never calls EncodeAnimation and
\* starts none of the concurrent stages or hand-offs.
C13_SingleFrameNoConcurrency ==
  framerate <= 0 =>
    /\ NoStageStarted
    /\ produced <= 1
    /\ encoded = FirstFrames(Len(encoded)) /\ Len(encoded) <= produced
    /\ (mainPc = "done" /\ ~reported) => (produced = 1 /\ encoded = <<1>>)
    /\ (SessionEnded /\ produced = 1 /\ ~formatNil) => encoded = <<1>>

\* a single-frame session has ended well with a negative framerate
C13_Witness ==
  /\ framerate < 0 /\ mainPc = "done" /\ ~reported
  /\ produced = 1 /\ encoded = <<1>>

ReturnedBeforeCounterClose == mainPc = "done" /\ metPc = "close"

\* the stages the final wait is for
ProducerReturned == prodPc = "returned"
MetronomeFinished == metPc \in {"close", "end"}
EncoderFinished == encPc = "end"

\* C15: in animation mode the renderer and the output sink are released
\* (the deferred sh.Close and outWriter.Close) only after sh.Animate has
\* returned and the metronome and encoder goroutines have called Done; no
\* frame is rendered or encoded after the release.
C15_ReleaseAfterStages ==
  (released /\ framerate > 0 /\ prodPc # "idle") =>
    /\ ProducerReturned /\ MetronomeFinished /\ EncoderFinished
    /\ waitgroup = 0
    /\ encImg = NoImg /\ metImg = NoImg /\ prodImg = NoImg
    /\ mainPc = "done"

\* an animation that delivered frames has been released
C15_Witness ==
  released /\ framerate > 0 /\ Len(received) >= 2 /\ produced > Len(received)

\* nothing renders or encodes once released
NothingAfterRelease ==
  [][released => (produced' = produced /\ received' = received
                  /\ encoded' = encoded)]_vars

\* the process's exit status: 0 when main returns, 1 after os.Exit(1), 2
\* after a panic
ExitStatus ==
  CASE mainPc = "done" -> 0
    [] mainPc = "exit1" -> 1
    [] mainPc = "panic" -> 2
    [] OTHER -> -1

\* EncodeAnimation failed while the stream was still open: its cancel() was
\* the first
FailedMidStream == encErr /\ cancelledBy = "encoder"

\* C16: when EncodeAnimation has failed mid-stream in animation mode, the
\* session does not crash and, once the stages have drained and terminated,
\* it ends
\* with a failure result (its outcome is not success).
C16_EncoderFailureIsResult ==
  (FailedMidStream /\ SessionEnded) => (mainPc # "panic" /\ ExitStatus # 0)

\* What holds instead: the failure is printed, the session does not crash,
\* and main returns normally, with exit status 0.
EncoderFailureOnlyReported ==
  (encErr /\ SessionEnded) => (reported /\ mainPc = "done" /\ ExitStatus = 0)

\* the failed session has drained, terminated and returned success
EncoderFailureReturnsSuccess ==
  /\ FailedMidStream /\ mainPc = "done" /\ ExitStatus = 0
  /\ encPc = "end" /\ waitgroup = 0 /\ Len(received) >= 1

\* the construction-time failures the session is given: every fault but an
\* unknown -env value, which is not among those C17 lists
ListedFaults == Faults \ {"none", "detectEnv", "unknownEnv"}

\* C17: a construction-time failure (geometry, undetectable or unknown
\* output format, unreadable shader, compile error, unopenable output) is
\* reported and ends the session before any frame is rendered or encoded
\* and before any stage is started; the session never goes on without a
\* format.
C17_ConstructionFailureAborts ==
  (fault \in ListedFaults /\ mainPc # "flags") =>
    /\ produced = 0 /\ encoded = <<>>
    /\ NoStageStarted
    /\ ~formatNil
    /\ mainPc \in {"construct", "exit1", "done"}
    /\ mainPc # "construct" => reported

\* What holds instead: cmd/shady aborts on each of these failures; the main
\* of imu.go aborts on each of them but the unknown -ofmt value.
ConstructionFailureAbortsButUnknownFormat ==
  (/\ fault \in ListedFaults /\ mainPc # "flags"
   /\ ~(program = "legacy" /\ fault = "unknownFormat")) =>
    /\ produced = 0 /\ encoded = <<>>
    /\ NoStageStarted
    /\ ~formatNil
    /\ mainPc \in {"construct", "exit1", "done"}
    /\ mainPc # "construct" => reported

\* the session has rendered a frame without a format, and crashed
RenderedWithoutFormat == formatNil /\ produced >= 1 /\ mainPc = "panic"

\* an unknown -env value is printed and the session goes on all the same
UnknownEnvGoesOn == fault = "unknownEnv" /\ reported /\ produced >= 1

(* ---- GIF ---------------------------------------------------------------- *)
\* frames the loop body of EncodeAnimation has finished with
AnimProcessed == AnimTaken - (IF animPc = "encode" THEN 1 ELSE 0)

\* C18: for GIF every frame of the animation gets the delay
\* floor(interval / 10ms) in 1/100 s (50 for 500 ms, 0 for 0, truncating
\* otherwise), the loop count is 0, and there are as many images, delays
\* and disposal entries as frames taken from the input.
C18_GifDelayAndCounts ==
  animFormat = "gif" =>
    /\ Len(gifImage) = AnimProcessed
    /\ Len(gifDelay) = AnimProcessed
    /\ Len(gifDisposal) = AnimProcessed
    /\ animPc = "returned" => AnimProcessed = Len(animInput)
    /\ gifLoopCount = 0
    /\ \A n \in 1..Len(gifDelay) :
         /\ gifDelay[n] * 10 <= animInterval
         /\ animInterval < (gifDelay[n] + 1) * 10
         /\ animInterval = 500 => gifDelay[n] = 50
         /\ animInterval = 0 => gifDelay[n] = 0

\* a whole animation at an interval that is not a multiple of 10 ms
C18_Witness ==
  /\ animFormat = "gif" /\ animPc = "returned" /\ animErr = "nil"
  /\ Len(animInput) = 3 /\ animInterval = 15
  /\ gifDelay = <<1, 1, 1>>

\* the same at 500 ms
GifHalfSecond ==
  /\ animFormat = "gif" /\ animPc = "returned" /\ animErr = "nil"
  /\ animInterval = 500 /\ gifDelay = <<50, 50>>

(* ---- raw formats --------------------------------------------------------- *)
RawFormats == {"rgb24", "rgba32"}
Channels(fmt) == IF fmt = "rgb24" THEN 3 ELSE 4

\* the pixels of the frame, row by row from the top row, with the given
\* number of channels each
RowMajor(f, channels) ==
  [j \in 1..(f.w * f.h * channels) |->
     LET k == (j - 1) \div channels
     IN At(f, f.x0 + (k % f.w), f.y0 + (k \div f.w))[((j - 1) % channels) + 1]]

\* the first frame has gone through Encode and its Write succeeded
FirstFrameEncoded ==
  animPc = "recv" /\ AnimTaken = 1 /\ animErr = "none"

\* C19: for every frame of width W and height H, RGB24 Encode writes
\* exactly W*H*3 bytes and RGBA32 Encode exactly W*H*4 bytes, the frame's
\* pixels row-major from the top row and nothing else, whether or not the
\* frame is an *image.RGBA, whatever its origin and stride.
C19_RawDumpIsRowMajor ==
  animFormat \in RawFormats =>
    /\ animErr # "panic"
    /\ FirstFrameEncoded =>
         /\ Len(animSink) = animInput[1].w * animInput[1].h
                              * Channels(animFormat)
         /\ animSink = RowMajor(animInput[1], Channels(animFormat))

\* frames that own their pixels: bounds at the origin, rows packed
PlainFrame(f) == f.x0 = 0 /\ f.y0 = 0 /\ f.stride = 4 * f.w

\* What holds instead: the dump is right for frames at the origin whose
\* rows are packed.
RawDumpOfPlainFrames ==
  (animFormat \in RawFormats /\ \A n \in 1..Len(animInput) :
                                   PlainFrame(animInput[n])) =>
    /\ animErr # "panic"
    /\ FirstFrameEncoded =>
         animSink = RowMajor(animInput[1], Channels(animFormat))

\* RGB24 Encode of a sub-image that does not start at the origin panics
RGB24PanicsOffOrigin ==
  animFormat = "rgb24" /\ animErr = "panic" /\ animImg.x0 # 0

\* RGBA32 Encode of a sub-image writes the parent's pixels as well
RGBA32WritesParent ==
  /\ animFormat = "rgba32" /\ FirstFrameEncoded
  /\ Len(animSink) > animInput[1].w * animInput[1].h * 4

(* ---- the frame limit ----------------------------------------------------- *)
\* no interrupt has been delivered and no write of the encoder has failed
Undisturbed == sigPc # "done" /\ ~encErr

\* the metronome has left its range loop
MetronomeStopped == metPc \in {"wgdone", "close", "end"}

LimitState ==
  /\ animateNumFrames > 0 =>
       /\ frame <= animateNumFrames
       /\ Len(received) <= animateNumFrames
  /\ (Undisturbed /\ ctxDone) =>
       /\ cancelledBy = "limit"
       /\ animateNumFrames > 0
       /\ frame = animateNumFrames
       /\ received = FirstFrames(animateNumFrames)
       /\ MetronomeStopped

LimitStep ==
  /\ (metPc = "limit" /\ metPc' = "wgdone") =>
       /\ animateNumFrames > 0
       /\ frame = animateNumFrames
       /\ ctxDone'
  /\ MetronomeStopped =>
       /\ MetronomeStopped'
       /\ frame' = frame
       /\ received' = received

\* C20: with a frame limit N > 0, no signal and no encoder failure, the
\* metronome forwards the first N frames, then cancels and leaves its loop;
\* it never takes or forwards an (N+1)-th frame, whatever is still buffered
\* in imgStream.  With limit 0 the metronome never cancels.
C20_LimitForwardsExactlyN ==
  []LimitState /\ [][LimitStep]_vars

\* the limit was hit while the producer had already buffered later frames
C20_Witness ==
  /\ Undisturbed /\ cancelledBy = "limit"
  /\ animateNumFrames = MaxLimit
  /\ received = FirstFrames(MaxLimit)
  /\ imgStream # <<>>
  /\ MetronomeStopped

\* a session without limit that has forwarded more than MaxLimit frames
UnlimitedKeepsForwarding ==
  /\ animateNumFrames = 0 /\ Len(received) > MaxLimit /\ ~ctxDone

(* ---- the duration limit -------------------------------------------------- *)
\* cmd/shady got past its flag validation with -duration d > 0 and
\* -framerate r > 0
DurationSession ==
  /\ program = "shady" /\ mainPc # "flags"
  /\ duration > 0 /\ framerate > 0 /\ numFrames = 0

\* C21: with a duration limit d > 0 and a framerate r > 0 the session's
\* frame limit is d*r truncated, and the metronome takes no more than that
\* many frames: a nonzero duration always bounds the session, also when
\* d*r < 1.
C21_DurationBoundsSession ==
  DurationSession =>
    /\ animateNumFrames * RateDen <= duration * framerate
    /\ duration * framerate < (animateNumFrames + 1) * RateDen
    /\ frame <= animateNumFrames
    /\ Len(received) <= animateNumFrames

\* What holds instead: the limit is d*r truncated, and it bounds the
\* session when d*r is at least 1.
DurationBoundsFromOneFrame ==
  DurationSession =>
    /\ animateNumFrames * RateDen <= duration * framerate
    /\ duration * framerate < (animateNumFrames + 1) * RateDen
    /\ duration * framerate >= RateDen =>
         /\ frame <= animateNumFrames
         /\ Len(received) <= animateNumFrames

\* a duration whose frame count truncates to 0 runs as a session without
\* limit
DurationTreatedAsNoLimit ==
  /\ DurationSession /\ animateNumFrames = 0
  /\ Len(received) >= 2 /\ ~ctxDone

(* ---- the camera's teardown ----------------------------------------------- *)
TeardownStarted(n) == SubSeq(TeardownOrder, 1, n)

\* C22: freenectLoop makes the four teardown calls once, in the order stop
\* depth, stop video, close device, shutdown, whether it left its loop on
\* the close signal or on a failure of freenect_process_events; loopClosed
\* is closed only after the last of them, and Close deletes the texture
\* only after loopClosed is closed.
C22_TeardownOnceInOrder ==
  /\ Len(kinTeardown) <= Len(TeardownOrder)
  /\ kinTeardown = TeardownStarted(Len(kinTeardown))
  /\ kinTeardown # <<>> => kinExit \in {"closed", "failed"}
  /\ kinLoopPc \in {"ack", "end"} => kinTeardown = TeardownOrder
  /\ loopClosedCh["kin"] = "closed" =>
       /\ kinTeardown = TeardownOrder
       /\ kinExit \in {"closed", "failed"}
  /\ kinTexture = "deleted" => loopClosedCh["kin"] = "closed"

\* event processing failed, the loop tore the device down, and a later
\* Close deleted the texture
C22_Witness ==
  /\ kinExit = "failed" /\ kinTeardown = TeardownOrder
  /\ kinTexture = "deleted" /\ closeReturned["kin"]

\* the same after an exit on the close signal
TeardownAfterCloseSignal ==
  /\ kinExit = "closed" /\ kinTeardown = TeardownOrder
  /\ kinTexture = "deleted" /\ closeReturned["kin"]

(* ---- a failure of the camera's event processing -------------------------- *)
KinFailed == kinExit = "failed"
KinPreRenderRunning == rtPc \in {"kinLock", "kinUpload", "kinUniforms",
                                 "kinUnlock"}

\* after the failure the loop is in its teardown or has returned, the
\* provider stays usable from the render thread, no callback holds the
\* lock, an upload pushes the snapshot as it is, and the teardown log does
\* not grow beyond the four calls
FailedState ==
  KinFailed =>
    /\ kinLoopPc \in {"stopDepth", "stopVideo", "closeDevice", "shutdown",
                      "ack", "end"}
    /\ provState["kin"] = "ready"
    /\ kinLock # "callback"
    /\ (rtPc = "kinUniforms" /\ uniformsBound) => kinGpuTex = kinPix
    /\ kinTeardown = TeardownStarted(Len(kinTeardown))

\* the snapshot is not written after the failure
FailedStep == KinFailed => (kinPix' = kinPix /\ KinFailed')

\* C23: when freenect_process_events fails, only freenectLoop ends: the
\* render thread goes on calling PreRender, each PreRender uploads the
\* unchanged last snapshot and returns, the snapshot is never written
\* again, and a later Close returns without a second teardown.
C23_FailureOnlyStopsLoop ==
  /\ []FailedState
  /\ [][FailedStep]_vars
  /\ (KinFailed /\ KinPreRenderRunning) ~> (rtPc = "idle")
  /\ (KinFailed /\ closeCalled["kin"]) ~>
       (closeReturned["kin"] /\ kinTeardown = TeardownOrder)

\* after the failure a PreRender has uploaded the snapshot the last
\* callback left
C23_Witness ==
  /\ KinFailed /\ kinLoopPc = "end"
  /\ rtPc = "kinUniforms" /\ uniformsBound
  /\ kinPix # BlankPix /\ kinGpuTex = kinPix

\* Close after the failure has returned
ClosedAfterFailure ==
  KinFailed /\ closeReturned["kin"] /\ kinTeardown = TeardownOrder

(* ---- provider construction ----------------------------------------------- *)
ImuFetchFailures == {"neterr", "typeerr"}
KinOpenFailures == {"initFail", "noDevice", "openFail"}

\* C24: construction returns a ready provider whose background loop has
\* been started, or an error with no loop started and no instance left
\* registered: newIMUPeripheral fails when its one synchronous fetch fails,
\* open fails when freenect_init, device discovery or freenect_open_device
\* fails, and shuts the context down again if it had been initialised.
C24_ConstructionReadyOrError ==
  /\ \A p \in Providers :
       /\ provState[p] = "none" <=> constructOutcome[p] = "none"
       /\ provState[p] = "ready" <=> constructOutcome[p] = "ok"
       /\ provState[p] # "none" => p \in mapping
  /\ provState["imu"] = "failed" <=>
       constructOutcome["imu"] \in ImuFetchFailures
  /\ provState["kin"] = "failed" <=>
       constructOutcome["kin"] \in KinOpenFailures
  /\ provState["imu"] = "ready" =>
       /\ imuLoopPc # "none"
       /\ closedCh["imu"] # "nil" /\ loopClosedCh["imu"] # "nil"
  /\ provState["imu"] # "ready" =>
       /\ imuLoopPc = "none"
       /\ closedCh["imu"] = "nil" /\ loopClosedCh["imu"] = "nil"
  /\ provState["kin"] = "ready" =>
       /\ kinLoopPc # "none"
       /\ kinTexture # "none"
  /\ provState["kin"] # "ready" =>
       /\ kinLoopPc = "none"
       /\ instances = {}
       /\ kinTexture = "none" /\ kinDev = "none"
       /\ kinCtx = IF constructOutcome["kin"] \in {"noDevice", "openFail"}
                     THEN "shutdown" ELSE "none"

\* open found the device but could not open it
C24_Witness ==
  /\ provState["kin"] = "failed" /\ constructOutcome["kin"] = "openFail"
  /\ kinCtx = "shutdown" /\ instances = {} /\ kinLoopPc = "none"

\* the construction-time fetch of the sensor failed
ImuConstructionFailed ==
  /\ provState["imu"] = "failed" /\ imuLoopPc = "none"

\* a provider was constructed and its loop runs
ConstructedAndRunning ==
  \/ provState["imu"] = "ready" /\ imuLoopPc = "lock"
  \/ provState["kin"] = "ready" /\ kinLoopPc = "events"

(* ---- who touches the GPU and the uniform table --------------------------- *)
\* the uniform table entries and the texture
GpuState == <<imuUniform, kinTexture, kinGpuTex>>

\* a step of the render thread: a constructor, PreRender or Close
RenderThreadStep == rtPc' # rtPc \/ provState' # provState

\* a step of the sensor's polling goroutine or of freenectLoop, driver
\* callbacks included
ImuLoopStep == imuLoopPc # "none" /\ imuLoopPc' # imuLoopPc
KinLoopStep == kinLoopPc # "none" /\ kinLoopPc' # kinLoopPc

\* C25: the uniform table, the texture and the GPU are touched only by the
\* render thread (constructors, PreRender, Close); the polling goroutine,
\* freenectLoop and the driver callbacks change only their provider's
\* snapshot, and only while holding its lock.
C25_GpuOnlyOnRenderThread ==
  [][/\ GpuState' # GpuState => RenderThreadStep
     /\ (ImuLoopStep \/ KinLoopStep) =>
          /\ GpuState' = GpuState
          /\ instances' = instances
          /\ rtPc' = rtPc
     /\ ImuLoopStep =>
          /\ kinPix' = kinPix
          /\ imuCurrentValue' # imuCurrentValue => imuLock = "loop"
     /\ KinLoopStep =>
          /\ imuCurrentValue' = imuCurrentValue
          /\ kinPix' # kinPix => kinLock = "callback"
    ]_vars

\* a callback has rewritten the snapshot; the texture still holds what the
\* render thread uploaded last
C25_Witness ==
  /\ kinLoopPc = "cbUnlock" /\ kinLock = "callback"
  /\ kinTexture = "allocated"
  /\ kinPix # BlankPix /\ kinGpuTex = BlankPix

\* the polling goroutine has stored a reading the uniform table does not
\* show yet
ImuStoredNotPushed ==
  /\ imuLoopPc = "unlock" /\ imuCurrentValue # ZeroReading
  /\ imuUniform # imuCurrentValue

(* ---- the instances registry ---------------------------------------------- *)
\* the registry holds an entry for the camera provider's handle, under
\* whatever type of key
Registered ==
  \E k \in instances : k.handle = "instanceHandle"

\* C26: the instances registry holds an entry for a camera provider from
\* its successful construction until its Close returns, and none before
\* or after: once Close has returned no entry for the provider's handle is
\* left, and no driver callback runs for the closed provider.
C26_RegisteredUntilClose ==
  /\ (provState["kin"] = "ready" /\ ~closeReturned["kin"]) => Registered
  /\ provState["kin"] # "ready" => ~Registered
  /\ closeReturned["kin"] =>
       /\ ~Registered
       /\ kinLoopPc = "end" /\ kinCbKind = "none"

\* What holds instead: the entry is there from construction on and is
\* never removed; no callback runs once Close has returned.
RegisteredForEver ==
  /\ provState["kin"] = "ready" <=> Registered
  /\ Registered => instances = {StoreKey}
  /\ closeReturned["kin"] => (kinLoopPc = "end" /\ kinCbKind = "none")

\* Close has returned and the provider's entry is still in the registry
EntryLeftAfterClose ==
  closeReturned["kin"] /\ kinTexture = "deleted" /\ StoreKey \in instances
====
